---- MODULE Spec2Model ----
(***************************************************************************)
(* MCPClient (src/unnamed/part_001, second class body, lines 366-738):     *)
(* the request/response correlation registry, the session bootstrap over   *)
(* the inbound SSE stream and the three protocol operations.               *)
(*                                                                         *)
(* Granularity.  Node runs one callback to completion and then drains the  *)
(* microtask queue, so a handler that settles a promise and the code that  *)
(* awaits this promise (up to its next await) form one step: a reply that  *)
(* resolves the initialize request also runs the rest of initialize() and  *)
(* connect() up to the POST of tools/list.  Macrotasks (an inbound         *)
(* message, a timer, the completion of a POST, a call of the public API)   *)
(* interleave freely.                                                      *)
(*                                                                         *)
(* On top of the client: LangChainMCPAgent, MCPToolsManager and            *)
(* MCPToolWrapper (src/src/agent/langchain-agent.ts), whose continuations  *)
(* are woken by the same steps.                                            *)
(***************************************************************************)
EXTENDS Integers, Sequences, FiniteSets, TLC

\* ---- bounds -------------------------------------------------------------
MaxReq == 3          \* requests issued in one behaviour (uuidv4 = next index)
MaxLiveReq == 2      \* the same, in the behaviours checked for liveness
MaxConnect == 2      \* connect() calls, where a user of the class reconnects
MaxReconnectReq == 2 \* requests issued in the behaviours with reconnection
MaxAgentReq == 4     \* requests issued in the behaviours of the agent
MaxContent == 2      \* items in the content list of a tool result
MaxWords == 3        \* words of a free-text tool input
MaxHealthReq == 3    \* requests issued in the behaviours with health checks
MaxChatReq == 4      \* requests issued in the behaviours with a chat stream
MaxStreams == 1      \* POST /api/chat requests in those behaviours
MaxTokens == 1       \* characters of a reply of the language model
MaxHeartbeats == 1   \* heartbeats written on one chat stream
MaxChats == 12       \* calls of processMessage that return, per session
MaxOverlap == 2      \* POST /api/chat requests in progress at the same time
MaxRaced == 2        \* calls of a session returned before the last overlapping request
MaxOtherChats == 2   \* calls of processMessage that return, of the second session
MaxFrames == 4       \* frames of sendMessage the call stack has room for
MaxHistoryReq == 0   \* requests issued in those behaviours (the agent runs without tools)

\* ---- the program's callers ------------------------------------------------
\* connect() is called once per client: LangChainMCPAgent.initialize calls
\* connectSafely() and nothing in the repository reconnects
ConnectCalls == 1

\* ---- values -------------------------------------------------------------
NoSession == "none"                    \* undefined or '' (both falsy)
ServerSessions == {"s1", "s2"}         \* identifiers the server announces
CallerSessions == {NoSession, "c1"}    \* sessionId argument of callTool

NoTools == <<>>
ToolLists == {<<"t1">>}

\* result member of a reply: present = the reply has a result at all
NoResult == [present |-> FALSE, serverInfo |-> FALSE, hasTools |-> FALSE, tools |-> NoTools]
Results ==
    {NoResult}
    \cup {[present |-> TRUE, serverInfo |-> TRUE, hasTools |-> TRUE, tools |-> t] : t \in ToolLists}
    \cup {[present |-> TRUE, serverInfo |-> FALSE, hasTools |-> FALSE, tools |-> NoTools]}

\* inbound messages: id 0 = no id; sess = params.sessionId
Messages ==
    {[id |-> i, error |-> FALSE, result |-> r, sess |-> s] :
        i \in 0..MaxReq, r \in Results, s \in {NoSession} \cup ServerSessions}
    \cup {[id |-> i, error |-> TRUE, result |-> NoResult, sess |-> NoSession] : i \in 0..MaxReq}

ErrNone == ""
ErrNotInitialized == "MCP client not initialized"
ErrFetchNoSession == "Cannot fetch tools without sessionId"
ErrCallNoSession == "No sessionId available for tool call"

NoCall == [op |-> "none", sid |-> NoSession, err |-> ErrNone]

\* the agent before initialize(): no executor, no tools, no wrapper
PendingSessionId == "pending-session-id"
ChatSessions == {"c1"}                 \* sessionId argument of processMessage
\* sessionId of POST /api/chat
Conversations == ChatSessions \cup {"c2"}

\* no GET /api/health so far
NoHealth == [pc |-> "none"]

NoAgent ==
    [pc |-> "none", op |-> "none", created |-> FALSE, fetch |-> 0,
     tools |-> NoTools, mgrTools |-> NoTools, cached |-> NoSession]

VARIABLES
    sessionId,        \* this.sessionId
    tools,            \* this.tools: [defined, list]; defined = FALSE is undefined
    isConnected,      \* this.isConnected
    initialized,      \* this.initialized
    pendingRequests,  \* keys of this.pendingRequests; the callback of key k settles req[k]
    eventSource,      \* this.eventSource: 0 = undefined, c = stream of connect call c
    req,              \* the promises of sendRequest, by identifier
    conn,             \* the connect() calls, each with its setupSSEConnection closure
    handshake,        \* history: an initialize reply succeeded and no reset since
    callLog,          \* observation: the public API call made by the last step
    agent,            \* LangChainMCPAgent with its MCPToolsManager and tool wrappers
    inv,              \* the executeInternal calls that reached callTool, by request
    pure,             \* one call of a function of the wrapper: [fn, arg, done, out]
    health,           \* the GET /api/health request in progress or last answered
    chats,            \* the POST /api/chat requests, each with its SSEStream
    conversationHistory,  \* this.conversationHistory: session -> messages ([] = no entry)
    said              \* history: per session, the number of messages recorded so far
                      \* (n) and the number recorded before its last clear (cleared)

\* the HTTP server (ExpressServer and its routers)
serverVars == <<health, chats, conversationHistory, said>>

\* what the client does not touch
facadeVars == <<agent, inv, pure, serverVars>>

\* client and agent
programVars == <<sessionId, tools, isConnected, initialized, pendingRequests,
                 eventSource, req, conn, handshake, callLog, agent, inv, serverVars>>

vars == <<sessionId, tools, isConnected, initialized, pendingRequests,
          eventSource, req, conn, handshake, callLog, agent, inv, pure, serverVars>>

\* the client as one value, so that a handler and the continuation it wakes compose
State ==
    [sessionId |-> sessionId, tools |-> tools, isConnected |-> isConnected,
     initialized |-> initialized, pendingRequests |-> pendingRequests,
     eventSource |-> eventSource, req |-> req, conn |-> conn, handshake |-> handshake]

Commit(S) ==
    /\ sessionId' = S.sessionId
    /\ tools' = S.tools
    /\ isConnected' = S.isConnected
    /\ initialized' = S.initialized
    /\ pendingRequests' = S.pendingRequests
    /\ eventSource' = S.eventSource
    /\ req' = S.req
    /\ conn' = S.conn
    /\ handshake' = S.handshake

InitProgram ==
    /\ sessionId = NoSession
    /\ tools = [defined |-> TRUE, list |-> NoTools]
    /\ isConnected = FALSE
    /\ initialized = FALSE
    /\ pendingRequests = {}
    /\ eventSource = 0
    /\ req = <<>>
    /\ conn = <<>>
    /\ handshake = FALSE
    /\ callLog = NoCall
    /\ agent = NoAgent
    /\ inv = <<>>
    /\ health = NoHealth
    /\ chats = <<>>
    /\ conversationHistory = [s \in Conversations |-> <<>>]
    /\ said = [s \in Conversations |-> [n |-> 0, cleared |-> 0]]

\* no function of the wrapper is being called
Idle == [fn |-> "none"]

Init == InitProgram /\ pure = Idle

\* ---- promises ------------------------------------------------------------
\* resolve/reject of the promise created by sendRequest: only the first call
\* settles it (ECMAScript promise semantics)
settle(S, id, kind) ==
    IF S.req[id].outcome = "pending"
    THEN [S EXCEPT !.req[id].outcome = kind]
    ELSE S

\* ---- sendRequest, up to its await of the POST ----------------------------
\* the request is handed to the POST without an entry in the registry
sendRequest_EntryAfterPost(S, method, sid, owner) ==
    [S EXCEPT !.req = Append(@, [method |-> method, sid |-> sid, owner |-> owner,
                                 outcome |-> "pending",
                                 timer |-> "armed", post |-> "sent",
                                 held |-> S.sessionId, hs |-> S.handshake])]

sendRequest(S, method, sid, owner) ==
    LET id == Len(S.req) + 1 IN
    [S EXCEPT !.req = Append(@, [method |-> method, sid |-> sid, owner |-> owner,
                                 outcome |-> "pending",
                                 timer |-> "armed", post |-> "sent",
                                 held |-> S.sessionId, hs |-> S.handshake]),
              !.pendingRequests = @ \cup {id}]

\* the response handler sendRequest registers under request.id
callback(S, id, m) ==
    IF m.error
    THEN settle(S, id, "protocol_error")
    ELSE settle(S, id, "success")

\* ---- connect() -----------------------------------------------------------
\* the catch block forgets this.initialized
connectCatch_KeepsInitialized(S, c) ==
    [S EXCEPT !.isConnected = FALSE, !.handshake = FALSE, !.conn[c].pc = "failed"]

\* the catch block of connect()
connectCatch(S, c) ==
    [S EXCEPT !.isConnected = FALSE, !.initialized = FALSE,
              !.handshake = FALSE, !.conn[c].pc = "failed"]

\* the guards of fetchTools
fetchToolsGuard(S) ==
    IF ~S.initialized THEN ErrNotInitialized
    ELSE IF S.sessionId = NoSession THEN ErrFetchNoSession
    ELSE ErrNone

\* callTool checks the session identifier only
callToolGuard_NoInitCheck(S, sid) ==
    IF sid = NoSession /\ S.sessionId = NoSession THEN ErrCallNoSession ELSE ErrNone

\* the guards of callTool
callToolGuard(S, sid) ==
    IF ~S.initialized THEN ErrNotInitialized
    ELSE IF sid = NoSession /\ S.sessionId = NoSession THEN ErrCallNoSession
    ELSE ErrNone

\* sessionId || this.sessionId
effectiveSessionId(S, sid) == IF sid # NoSession THEN sid ELSE S.sessionId

\* connect() from the return of initialize(): fetchTools() up to its POST
connectFetchTools(S, c) ==
    IF fetchToolsGuard(S) # ErrNone
    THEN connectCatch(S, c)
    ELSE [sendRequest(S, "tools/list", S.sessionId, c) EXCEPT !.conn[c].pc = "fetch"]

\* connect() from the return of setupSSEConnection(): the sessionId check and
\* initialize() up to its POST
connectInitialize(S, c) ==
    IF S.sessionId = NoSession
    THEN connectCatch(S, c)
    ELSE [sendRequest(S, "initialize", S.sessionId, c) EXCEPT !.conn[c].pc = "init"]

\* the code awaiting the promise of request id, run once the promise is
\* settled: initialize() and fetchTools() after their await, and connect() behind
resume(S, id, result) ==
    LET q == S.req[id]
        ok == q.outcome = "success"
    IN  CASE q.method = "initialize" ->
                LET S1 == IF ok THEN [S EXCEPT !.handshake = TRUE] ELSE S IN
                IF ok /\ result.present /\ result.serverInfo
                THEN connectFetchTools([S1 EXCEPT !.initialized = TRUE], q.owner)
                ELSE connectCatch(S1, q.owner)
          [] q.method = "tools/list" ->
                LET stored == IF ok /\ result.present
                              THEN [S EXCEPT !.tools = [defined |-> result.hasTools,
                                                        list |-> result.tools]]
                              ELSE S
                    returned == ok /\ result.present /\ result.hasTools
                IN  IF q.owner = 0 THEN stored
                    ELSE IF returned
                         THEN [stored EXCEPT !.isConnected = TRUE, !.conn[q.owner].pc = "done"]
                         ELSE connectCatch(stored, q.owner)
          [] OTHER -> S

\* the microtasks a handler leaves behind: the awaiting code runs if the
\* handler settled the promise of request id
wake(S0, S, id, result) ==
    IF S0.req[id].outcome = "pending" /\ S.req[id].outcome # "pending"
    THEN resume(S, id, result)
    ELSE S

\* ---- inbound stream ------------------------------------------------------
\* the callback is run but its entry is left in the registry
handleSSEMessage_KeepsEntry(S, m) ==
    IF m.id # 0 /\ m.id \in S.pendingRequests
    THEN wake(S, callback(S, m.id, m), m.id, m.result)
    ELSE S

\* a message is taken as the answer to the most recently issued pending request
handleSSEMessage_MostRecent(S, m) ==
    IF S.pendingRequests # {}
    THEN LET x == CHOOSE i \in S.pendingRequests : \A j \in S.pendingRequests : j <= i
             S1 == callback(S, x, m)
             S2 == [S1 EXCEPT !.pendingRequests = @ \ {x}]
         IN  wake(S, S2, x, m.result)
    ELSE S

handleSSEMessage(S, m) ==
    IF m.id # 0 /\ m.id \in S.pendingRequests
    THEN LET S1 == callback(S, m.id, m)
             S2 == [S1 EXCEPT !.pendingRequests = @ \ {m.id}]
         IN  wake(S, S2, m.id, m.result)
    ELSE S

\* every message carrying a session identifier replaces this.sessionId
onmessage_TakesEvery(S, c, m) ==
    IF m.sess # NoSession
    THEN LET S1 == [S EXCEPT !.sessionId = m.sess, !.conn[c].sessionIdReceived = TRUE] IN
         IF S1.conn[c].pc = "setup" THEN connectInitialize(S1, c) ELSE S1
    ELSE handleSSEMessage(S, m)

\* eventSource.onmessage of the stream opened by connect call c
onmessage(S, c, m) ==
    IF ~S.conn[c].sessionIdReceived /\ m.sess # NoSession
    THEN LET S1 == [S EXCEPT !.sessionId = m.sess, !.conn[c].sessionIdReceived = TRUE] IN
         IF S1.conn[c].pc = "setup" THEN connectInitialize(S1, c) ELSE S1
    ELSE handleSSEMessage(S, m)

\* an error after the session identifier drops the registry
onerror_DropsPending(S, c) ==
    IF ~S.conn[c].sessionIdReceived /\ S.conn[c].pc = "setup"
    THEN connectCatch(S, c)
    ELSE [S EXCEPT !.pendingRequests = {}]

\* eventSource.onerror of the stream opened by connect call c: reject() of the
\* setupSSEConnection promise before the session identifier, a log line after.
\* The stream stays open (the library reconnects); one it gives up on is a
\* stream on which no further message arrives.
onerror(S, c) ==
    IF ~S.conn[c].sessionIdReceived /\ S.conn[c].pc = "setup"
    THEN connectCatch(S, c)
    ELSE S

\* this.eventSource?.close()
closeEventSource(S) ==
    IF S.eventSource # 0 THEN [S EXCEPT !.conn[S.eventSource].open = FALSE] ELSE S

\* the timer closes the stream but does not reject
sessionTimeout_NoReject(S, c) ==
    LET S1 == [S EXCEPT !.conn[c].timer = "fired"] IN
    IF ~S1.conn[c].sessionIdReceived THEN closeEventSource(S1) ELSE S1

\* the 10 second timer of setupSSEConnection of connect call c
sessionTimeout(S, c) ==
    LET S1 == [S EXCEPT !.conn[c].timer = "fired"] IN
    IF ~S1.conn[c].sessionIdReceived
    THEN LET S2 == closeEventSource(S1) IN
         IF S2.conn[c].pc = "setup" THEN connectCatch(S2, c) ELSE S2
    ELSE S1

\* ---- the timer and the POST of one request --------------------------------
\* the timer rejects but leaves the entry in the registry
requestTimeout_KeepsEntry(S, id) ==
    LET S1 == [S EXCEPT !.req[id].timer = "off"]
        S2 == settle(S1, id, "timeout_error")
    IN  wake(S, S2, id, NoResult)

requestTimeout(S, id) ==
    LET S1 == [S EXCEPT !.req[id].timer = "off", !.pendingRequests = @ \ {id}]
        S2 == settle(S1, id, "timeout_error")
    IN  wake(S, S2, id, NoResult)

\* the catch block cleans up but never rejects
postFailed_NoReject(S, id) ==
    [S EXCEPT !.req[id].post = "failed", !.req[id].timer = "off",
              !.pendingRequests = @ \ {id}]

\* the catch block rejects but leaves the timer running
postFailed_KeepsTimer(S, id) ==
    LET S1 == [S EXCEPT !.req[id].post = "failed", !.pendingRequests = @ \ {id}]
        S2 == settle(S1, id, "transmission_error")
    IN  wake(S, S2, id, NoResult)

postFailed(S, id) ==
    LET S1 == [S EXCEPT !.req[id].post = "failed",
                        !.req[id].timer = "off",
                        !.pendingRequests = @ \ {id}]
        S2 == settle(S1, id, "transmission_error")
    IN  wake(S, S2, id, NoResult)

\* ---- disconnect() --------------------------------------------------------
\* disconnect() forgets this.initialized
disconnect_KeepsInitialized(S) ==
    [closeEventSource(S) EXCEPT !.isConnected = FALSE, !.sessionId = NoSession,
                                !.pendingRequests = {}, !.handshake = FALSE]

disconnect(S) ==
    [closeEventSource(S) EXCEPT !.isConnected = FALSE, !.initialized = FALSE,
                                !.sessionId = NoSession, !.pendingRequests = {},
                                !.handshake = FALSE]

\* Session identifiers are opaque, so the first one the client ever takes is
\* called "s1"; "s2" is a different identifier the server may send afterwards.
Announceable ==
    IF \E c \in 1..Len(conn) : conn[c].sessionIdReceived
    THEN ServerSessions
    ELSE {"s1"}

\* ---- actions -------------------------------------------------------------
Fits(S) == Len(S.req) <= MaxReq

\* connect(): new EventSource, handlers and session timer installed
Connect ==
    /\ Len(conn) < ConnectCalls
    /\ Commit([State EXCEPT !.conn = Append(@, [pc |-> "setup", open |-> TRUE,
                                               sessionIdReceived |-> FALSE,
                                               timer |-> "armed"]),
                            !.eventSource = Len(conn) + 1])
    /\ callLog' = NoCall
    /\ UNCHANGED facadeVars

\* Messages that differ only in members the handler does not read are handled
\* alike; one of each kind is delivered: the session field is not read once
\* the stream has its identifier, a message taken as the announcement is not
\* read further, and of a message without pending entry nothing is read.
OneOfAKind(c, m) ==
    /\ conn[c].sessionIdReceived => m.sess = NoSession
    /\ m.sess # NoSession => (m.id = 0 /\ m.result = NoResult)
    /\ (m.sess = NoSession /\ m.id \notin pendingRequests)
            => (m.id = 0 /\ m.result = NoResult /\ ~m.error)

\* a message on the stream of connect call c
OnMessage(c, m) ==
    /\ c \in 1..Len(conn)
    /\ conn[c].open
    /\ OneOfAKind(c, m)
    /\ m.sess \in {NoSession} \cup Announceable
    /\ Fits(onmessage(State, c, m))
    /\ Commit(onmessage(State, c, m))
    /\ callLog' = NoCall
    /\ UNCHANGED facadeVars

OnError(c) ==
    /\ c \in 1..Len(conn)
    /\ conn[c].open
    /\ Commit(onerror(State, c))
    /\ callLog' = NoCall
    /\ UNCHANGED facadeVars

SessionTimeout(c) ==
    /\ c \in 1..Len(conn)
    /\ conn[c].timer = "armed"
    /\ Commit(sessionTimeout(State, c))
    /\ callLog' = NoCall
    /\ UNCHANGED facadeVars

RequestTimeout(id) ==
    /\ id \in 1..Len(req)
    /\ req[id].timer = "armed"
    /\ Commit(requestTimeout(State, id))
    /\ callLog' = NoCall
    /\ UNCHANGED facadeVars

PostFailed(id) ==
    /\ id \in 1..Len(req)
    /\ req[id].post = "sent"
    /\ Commit(postFailed(State, id))
    /\ callLog' = NoCall
    /\ UNCHANGED facadeVars

\* the POST of request id is answered: await httpClient.post returns, a debug
\* line is logged
PostAcknowledged(id) ==
    /\ id \in 1..Len(req)
    /\ req[id].post = "sent"
    /\ Commit([State EXCEPT !.req[id].post = "acknowledged"])
    /\ callLog' = NoCall
    /\ UNCHANGED facadeVars

Disconnect ==
    /\ Commit(disconnect(State))
    /\ callLog' = NoCall
    /\ UNCHANGED facadeVars

\* public fetchTools(); observed = the call's outcome is recorded in callLog
FetchTools(observed) ==
    LET err == fetchToolsGuard(State) IN
    /\ callLog' = IF observed THEN [op |-> "fetchTools", sid |-> NoSession, err |-> err]
                              ELSE NoCall
    /\ UNCHANGED facadeVars
    /\ IF err # ErrNone
       THEN Commit(State)
       ELSE /\ Len(req) < MaxReq
            /\ Commit(sendRequest(State, "tools/list", sessionId, 0))

\* public callTool(name, arguments_, sessionId)
CallTool(sid, observed) ==
    LET err == callToolGuard(State, sid) IN
    /\ callLog' = IF observed THEN [op |-> "callTool", sid |-> sid, err |-> err]
                              ELSE NoCall
    /\ UNCHANGED facadeVars
    /\ IF err # ErrNone
       THEN Commit(State)
       ELSE /\ Len(req) < MaxReq
            /\ Commit(sendRequest(State, "tools/call", effectiveSessionId(State, sid), 0))

\* the server, the network and the timers
Environment ==
    \/ Connect
    \/ \E c \in 1..ConnectCalls, m \in Messages : OnMessage(c, m)
    \/ \E c \in 1..ConnectCalls : OnError(c)
    \/ \E c \in 1..ConnectCalls : SessionTimeout(c)
    \/ \E id \in 1..MaxReq : RequestTimeout(id)
    \/ \E id \in 1..MaxReq : PostFailed(id)
    \/ Disconnect

Next ==
    \/ Environment
    \/ FetchTools(FALSE)
    \/ \E sid \in CallerSessions : CallTool(sid, FALSE)

Spec == Init /\ [][Next]_vars

\* the same behaviours with the answer of the POST as a step of its own
NextTransmit ==
    \/ Next
    \/ \E id \in 1..MaxReq : PostAcknowledged(id)

SpecTransmit == Init /\ [][NextTransmit]_vars

\* the same client with the outcome of every API call observed
NextApi ==
    \/ Environment
    \/ FetchTools(TRUE)
    \/ \E sid \in CallerSessions : CallTool(sid, TRUE)

SpecApi == Init /\ [][NextApi]_vars

\* timers fire: every armed request timer eventually expires
NextLive == Next /\ Len(req') <= MaxLiveReq

SpecLive ==
    Init /\ [][NextLive]_vars /\ \A id \in 1..MaxLiveReq : WF_vars(RequestTimeout(id))

\* the session timer of a connect() call fires as well
SpecTimers ==
    SpecLive /\ \A c \in 1..ConnectCalls : WF_vars(SessionTimeout(c))

\* ---- connect() called again ----------------------------------------------
\* connect() is public: a user of the class other than the agent may call it
\* again, after a failure or after disconnect().  Each call opens a new
\* EventSource, overwrites this.eventSource and leaves the previous one alone.
ConnectAgain ==
    /\ Len(conn) >= ConnectCalls
    /\ Len(conn) < MaxConnect
    /\ Commit([State EXCEPT !.conn = Append(@, [pc |-> "setup", open |-> TRUE,
                                               sessionIdReceived |-> FALSE,
                                               timer |-> "armed"]),
                            !.eventSource = Len(conn) + 1])
    /\ callLog' = NoCall
    /\ UNCHANGED facadeVars

NextReconnect ==
    /\ \/ Connect
       \/ ConnectAgain
       \/ \E c \in 1..MaxConnect, m \in Messages : OnMessage(c, m)
       \/ \E c \in 1..MaxConnect : OnError(c)
       \/ \E c \in 1..MaxConnect : SessionTimeout(c)
       \/ \E id \in 1..MaxReconnectReq : RequestTimeout(id)
       \/ \E id \in 1..MaxReconnectReq : PostFailed(id)
       \/ Disconnect
       \/ FetchTools(FALSE)
       \/ \E sid \in CallerSessions : CallTool(sid, FALSE)
    /\ Len(req') <= MaxReconnectReq

SpecReconnect == Init /\ [][NextReconnect]_vars

\* ---- the agent and its tool wrappers --------------------------------------
\* result member of a tools/call reply: MCPToolResult with or without isError
ToolResults ==
    {[present |-> TRUE, serverInfo |-> FALSE, hasTools |-> FALSE, tools |-> NoTools,
      isError |-> e] : e \in BOOLEAN}

AgentMessages ==
    {[id |-> i, error |-> FALSE, result |-> r, sess |-> s] :
        i \in 0..MaxAgentReq, r \in Results \cup ToolResults,
        s \in {NoSession} \cup ServerSessions}
    \cup {[id |-> i, error |-> TRUE, result |-> NoResult, sess |-> NoSession] :
            i \in 0..MaxAgentReq}

\* result.isError: undefined (falsy) where the member is missing
isErrorFlag(result) == "isError" \in DOMAIN result /\ result.isError

\* client, agent and facade calls as one value
Sys == [client |-> State, agent |-> agent, inv |-> inv]

\* the bound on the requests of one behaviour is part of the commit
CommitSys(Y) ==
    /\ Len(Y.client.req) <= MaxAgentReq
    /\ Commit(Y.client)
    /\ agent' = Y.agent
    /\ inv' = Y.inv
    /\ UNCHANGED <<pure, serverVars>>

\* LangChainMCPAgent.initialize / refreshTools from the return of the tools
\* manager: this.tools = ..., createAgent()
toolsReturned(Y, list) ==
    LET synced == IF Y.agent.op = "refresh" /\ Y.client.sessionId # NoSession
                     /\ Y.agent.mgrTools # NoTools
                  THEN [Y EXCEPT !.agent.cached = Y.client.sessionId]
                  ELSE Y
    IN  [synced EXCEPT !.agent.tools = list, !.agent.created = TRUE,
                       !.agent.pc = "ready", !.agent.fetch = 0]

\* MCPToolsManager.initializeTools after its await of fetchTools(): the
\* wrappers are built and given the client's session identifier; a rejected
\* fetchTools() is caught and gives []
initializeToolsDone(Y, returned) ==
    IF returned
    THEN LET list == Y.client.tools.list
             sid == IF Y.client.sessionId # NoSession THEN Y.client.sessionId
                    ELSE PendingSessionId
             Y1 == [Y EXCEPT !.agent.mgrTools = list,
                             !.agent.cached = IF list # NoTools THEN sid ELSE @]
         IN  toolsReturned(Y1, list)
    ELSE toolsReturned(Y, NoTools)

\* MCPToolsManager.initializeTools up to the POST of fetchTools()
initializeTools(Y) ==
    IF ~(Y.client.isConnected /\ Y.client.initialized)
    THEN toolsReturned(Y, NoTools)
    ELSE IF fetchToolsGuard(Y.client) # ErrNone
    THEN toolsReturned(Y, NoTools)
    ELSE [Y EXCEPT !.client = sendRequest(@, "tools/list", @.sessionId, 0),
                   !.agent.fetch = Len(Y.client.req) + 1,
                   !.agent.pc = "fetching"]

\* LangChainMCPAgent.initialize from the return of connectSafely()
connectSafelyReturned(Y) ==
    IF Y.client.conn[1].pc = "done"
    THEN initializeTools(Y)
    ELSE toolsReturned(Y, NoTools)

\* the wrapper returns the content of an error-flagged result as text
executeInternalDone_IgnoresFlag(Y, id, result) ==
    LET ok == Y.client.req[id].outcome = "success" /\ result.present IN
    [Y EXCEPT !.inv[id].outcome = IF ok THEN "returned" ELSE "failed",
              !.inv[id].isError = ok /\ isErrorFlag(result)]

\* MCPToolWrapper.executeInternal after its await of callTool()
executeInternalDone(Y, id, result) ==
    LET ok == Y.client.req[id].outcome = "success" /\ result.present IN
    [Y EXCEPT !.inv[id].outcome = IF ok /\ ~isErrorFlag(result) THEN "returned" ELSE "failed",
              !.inv[id].isError = ok /\ isErrorFlag(result)]

\* the wrapper prefers its cached session identifier
executeInternal_PrefersCached(Y) ==
    LET cur == IF Y.agent.cached # NoSession THEN Y.agent.cached ELSE Y.client.sessionId
        id == Len(Y.client.req) + 1
    IN  IF callToolGuard(Y.client, cur) # ErrNone
        THEN Y
        ELSE [Y EXCEPT !.client = sendRequest(@, "tools/call", effectiveSessionId(@, cur), 0),
                       !.inv = @ @@ (id :> [outcome |-> "pending", isError |-> FALSE,
                                            cached |-> Y.agent.cached])]

\* MCPToolWrapper.executeInternal up to the POST of callTool()
executeInternal(Y) ==
    LET cur == IF Y.client.sessionId # NoSession THEN Y.client.sessionId ELSE Y.agent.cached
        id == Len(Y.client.req) + 1
    IN  IF callToolGuard(Y.client, cur) # ErrNone
        THEN Y
        ELSE [Y EXCEPT !.client = sendRequest(@, "tools/call", effectiveSessionId(@, cur), 0),
                       !.inv = @ @@ (id :> [outcome |-> "pending", isError |-> FALSE,
                                            cached |-> Y.agent.cached])]

\* the code of the agent layer that a step of the client wakes: Y0 before the
\* handler, Y after it, result = the result member of the message handled
agentWake(Y0, Y, result) ==
    LET settled == {id \in 1..Len(Y0.client.req) :
                        /\ Y0.client.req[id].outcome = "pending"
                        /\ Y.client.req[id].outcome # "pending"}
    IN  IF Y.agent.pc = "connecting" /\ Y.client.conn[1].pc \in {"done", "failed"}
        THEN connectSafelyReturned(Y)
        ELSE IF Y.agent.pc = "fetching" /\ Y.agent.fetch \in settled
        THEN initializeToolsDone(Y, /\ Y.client.req[Y.agent.fetch].outcome = "success"
                                    /\ result.present /\ result.hasTools)
        ELSE IF \E id \in settled : id \in DOMAIN Y.inv
        THEN executeInternalDone(Y, CHOOSE id \in settled : id \in DOMAIN Y.inv, result)
        ELSE Y

\* LangChainMCPAgent.initialize(): connectSafely() -> connect()
AgentInitialize ==
    /\ agent.pc = "none"
    /\ conn = <<>>
    /\ CommitSys([Sys EXCEPT !.client.conn = Append(@, [pc |-> "setup", open |-> TRUE,
                                                        sessionIdReceived |-> FALSE,
                                                        timer |-> "armed"]),
                             !.client.eventSource = 1,
                             !.agent.pc = "connecting",
                             !.agent.op = "initialize"])
    /\ callLog' = NoCall

AgentOnMessage(c, m) ==
    /\ c \in 1..Len(conn)
    /\ conn[c].open
    /\ m.sess \in {NoSession} \cup Announceable
    /\ OneOfAKind(c, m)
    /\ CommitSys(agentWake(Sys, [Sys EXCEPT !.client = onmessage(State, c, m)], m.result))
    /\ callLog' = NoCall

AgentOnError(c) ==
    /\ c \in 1..Len(conn)
    /\ conn[c].open
    /\ CommitSys(agentWake(Sys, [Sys EXCEPT !.client = onerror(State, c)], NoResult))
    /\ callLog' = NoCall

AgentSessionTimeout(c) ==
    /\ c \in 1..Len(conn)
    /\ conn[c].timer = "armed"
    /\ CommitSys(agentWake(Sys, [Sys EXCEPT !.client = sessionTimeout(State, c)], NoResult))
    /\ callLog' = NoCall

AgentRequestTimeout(id) ==
    /\ id \in 1..Len(req)
    /\ req[id].timer = "armed"
    /\ CommitSys(agentWake(Sys, [Sys EXCEPT !.client = requestTimeout(State, id)], NoResult))
    /\ callLog' = NoCall

AgentPostFailed(id) ==
    /\ id \in 1..Len(req)
    /\ req[id].post = "sent"
    /\ CommitSys(agentWake(Sys, [Sys EXCEPT !.client = postFailed(State, id)], NoResult))
    /\ callLog' = NoCall

\* LangChainMCPAgent.shutdown(): disconnect()
Shutdown ==
    /\ agent.pc # "none"
    /\ CommitSys([Sys EXCEPT !.client = disconnect(State)])
    /\ callLog' = NoCall

\* LangChainMCPAgent.refreshTools() (POST /api/tools/refresh)
RefreshTools ==
    /\ agent.pc = "ready"
    /\ CommitSys(initializeTools([Sys EXCEPT !.agent.op = "refresh"]))
    /\ callLog' = NoCall

\* LangChainMCPAgent.processMessage up to its first await:
\* setSessionIdForAllTools(sessionId) on the wrappers of the tools manager
ProcessMessage(chat) ==
    /\ agent.created
    /\ CommitSys([Sys EXCEPT !.agent.cached = IF agent.mgrTools # NoTools THEN chat ELSE @])
    /\ callLog' = NoCall

\* a wrapper of the agent's tool list is executed
Invoke ==
    /\ agent.created
    /\ agent.tools # NoTools
    /\ CommitSys(executeInternal(Sys))
    /\ callLog' = NoCall

NextAgent ==
    \/ AgentInitialize
    \/ \E c \in 1..ConnectCalls, m \in AgentMessages : AgentOnMessage(c, m)
    \/ \E c \in 1..ConnectCalls : AgentOnError(c)
    \/ \E c \in 1..ConnectCalls : AgentSessionTimeout(c)
    \/ \E id \in 1..MaxAgentReq : AgentRequestTimeout(id)
    \/ \E id \in 1..MaxAgentReq : AgentPostFailed(id)
    \/ Shutdown
    \/ RefreshTools
    \/ \E chat \in ChatSessions : ProcessMessage(chat)
    \/ Invoke

SpecAgent == Init /\ [][NextAgent]_vars

\* ---- GET /api/health -------------------------------------------------------
\* the status is 'partial' only while the stream or the server answers
mcpHealthStatus_IgnoresTools(S, details, serverReachable) ==
    IF S.isConnected /\ S.initialized /\ serverReachable /\ details.sseConnected
    THEN "connected"
    ELSE IF details.sseConnected \/ serverReachable
    THEN "partial"
    ELSE "disconnected"

\* MCPClient.healthCheck after its await of GET /health: details were read
\* before the await, isClientConnected() is read now
mcpHealthStatus(S, details, serverReachable) ==
    IF S.isConnected /\ S.initialized /\ serverReachable /\ details.sseConnected
    THEN "connected"
    ELSE IF details.toolsAvailable > 0 \/ details.sseConnected \/ serverReachable
    THEN "partial"
    ELSE "disconnected"

\* the handler of /api/health from the return of agent.healthCheck():
\* res.json(healthResponse) answers with status code 200 whatever the health;
\* the catch block with its 503 is not reached, agent.healthCheck() catches
\* everything itself
healthResponse(agentHealth) ==
    [pc |-> "done",
     http |-> 200,
     status |-> IF agentHealth.agent /\ agentHealth.llm /\ agentHealth.mcp # "disconnected"
                THEN "healthy" ELSE "unhealthy",
     agent |-> agentHealth.agent,
     mcp |-> agentHealth.mcp,
     serverReachable |-> agentHealth.serverReachable,
     sseConnected |-> agentHealth.sseConnected,
     toolsAvailable |-> agentHealth.toolsAvailable]

\* readyState of this.eventSource can be OPEN only for a stream not closed
SseStates ==
    IF eventSource # 0 /\ conn[eventSource].open THEN BOOLEAN ELSE {FALSE}

\* GET /api/health -> LangChainMCPAgent.healthCheck -> MCPClient.healthCheck up
\* to its await of GET /health.  this.tools.length throws where this.tools is
\* undefined: the agent's catch block then answers at once.
HealthCheck(sse) ==
    /\ health.pc # "awaiting"
    /\ sse \in SseStates
    /\ health' = IF tools.defined
                 THEN [pc |-> "awaiting",
                       details |-> [sseConnected |-> sse, initialized |-> initialized,
                                    toolsAvailable |-> Len(tools.list)]]
                 ELSE healthResponse([agent |-> FALSE, llm |-> FALSE, mcp |-> "disconnected",
                                      serverReachable |-> FALSE, sseConnected |-> FALSE,
                                      toolsAvailable |-> 0])
    /\ UNCHANGED <<sessionId, tools, isConnected, initialized, pendingRequests,
                   eventSource, req, conn, handshake, callLog, agent, inv, pure,
                   chats, conversationHistory, said>>

\* GET /health of the MCP server answered (serverReachable) or failed
HealthCheckDone(serverReachable) ==
    /\ health.pc = "awaiting"
    /\ health' = healthResponse([agent |-> agent.created, llm |-> TRUE,
                                 mcp |-> mcpHealthStatus(State, health.details, serverReachable),
                                 serverReachable |-> serverReachable,
                                 sseConnected |-> health.details.sseConnected,
                                 toolsAvailable |-> health.details.toolsAvailable])
    /\ UNCHANGED <<sessionId, tools, isConnected, initialized, pendingRequests,
                   eventSource, req, conn, handshake, callLog, agent, inv, pure,
                   chats, conversationHistory, said>>

NextHealth ==
    /\ \/ NextAgent
       \/ \E sse \in BOOLEAN : HealthCheck(sse)
       \/ \E serverReachable \in BOOLEAN : HealthCheckDone(serverReachable)
    /\ Len(req') <= MaxHealthReq

SpecHealth == Init /\ [][NextHealth]_vars

\* ---- POST /api/chat ---------------------------------------------------------
HistoryLimit == 20

\* SSEStream.sendMessage: an event is written while the stream is active
sendMessage(c, type) ==
    IF c.isActive THEN [c EXCEPT !.log = Append(@, type)] ELSE c

\* SSEStream.sendMessage where JSON.stringify or response.write may throw.
\* The call is followed frame by frame: the catch block calls sendError,
\* which calls sendMessage with an event of type 'error' that can be
\* serialized. A call stack of MaxFrames frames of sendMessage is full: the
\* next call throws RangeError, which no frame catches (every frame below is
\* in its catch block).
SendTypes == {"start", "token", "tool_call", "tool_result", "error", "end"}

InitSend ==
    /\ InitProgram
    /\ pure \in {[fn |-> "sendMessage",
                  arg |-> [type |-> type, isActive |-> active, serializable |-> ok],
                  done |-> FALSE,
                  out |-> [frames |-> 1, reports |-> 0, written |-> <<>>, threw |-> FALSE]] :
                    type \in SendTypes, active \in BOOLEAN, ok \in BOOLEAN}

\* the innermost frame of the call runs to its return or to its call of
\* sendError; writeThrows: response.write throws in this frame
SendMessageFrame(writeThrows) ==
    /\ pure.fn = "sendMessage"
    /\ ~pure.done
    /\ LET first == pure.out.frames = 1
           type == IF first THEN pure.arg.type ELSE "error"
           stringifyThrows == first /\ ~pure.arg.serializable
       IN  pure' =
             IF ~pure.arg.isActive
             THEN [pure EXCEPT !.done = TRUE]
             ELSE IF ~stringifyThrows /\ ~writeThrows
             THEN [pure EXCEPT !.done = TRUE, !.out.written = Append(@, type)]
             ELSE IF pure.out.frames = MaxFrames
             THEN [pure EXCEPT !.done = TRUE, !.out.threw = TRUE]
             ELSE [pure EXCEPT !.out.frames = @ + 1, !.out.reports = @ + 1]
    /\ UNCHANGED programVars

NextSend == \E writeThrows \in BOOLEAN : SendMessageFrame(writeThrows)

SpecSend == InitSend /\ [][NextSend]_vars

\* cleanup leaves the stream active and the heartbeat running
cleanup_KeepsActive(c) == c

\* SSEStream.cleanup: isActive = false, clearInterval, response.end()
cleanup(c) ==
    IF ~c.isActive THEN c ELSE [c EXCEPT !.isActive = FALSE, !.heartbeat = FALSE]

\* SSEStream.sendEnd
sendEnd(c) == cleanup(sendMessage(c, "end"))

\* if (stream) stream.send...(...)
emit(c, type) == IF c.stream THEN sendMessage(c, type) ELSE c

\* for (const char of content) stream.sendToken(char, sessionId)
RECURSIVE sendTokens(_, _)
sendTokens(c, n) == IF n = 0 THEN c ELSE sendTokens(emit(c, "token"), n - 1)

\* a request without stream is answered and forgotten
Answered(c) ==
    [c EXCEPT !.pc = "done", !.outcome = "answered", !.chatHistory = <<>>,
              !.session = "", !.tool = 0]

\* the route from the return of processMessage: sendEnd, or res.json
routeReturned(c) ==
    IF c.stream
    THEN [sendEnd(c) EXCEPT !.pc = "done", !.outcome = "returned", !.chatHistory = <<>>]
    ELSE Answered(c)

\* the route from a rejected processMessage: sendError and sendEnd, or the
\* answer 500
routeThrew(c) ==
    IF c.stream
    THEN [sendEnd(sendMessage(c, "error"))
            EXCEPT !.pc = "done", !.outcome = "failed", !.chatHistory = <<>>]
    ELSE Answered(c)

\* the catch block of processMessage, and the route behind it
processMessageCatch(c) == routeThrew(emit(c, "error"))

\* the last HistoryLimit messages
keepLast(history) ==
    IF Len(history) > HistoryLimit
    THEN SubSeq(history, Len(history) - HistoryLimit + 1, Len(history))
    ELSE history

\* the HumanMessage and the AIMessage of a call, named by their place among
\* the messages recorded for the session
HumanMessage(session) == said[session].n + 1
AIMessage(session) == said[session].n + 2

\* processMessage from the return of processWithManualToolExecution: the
\* history read at the start of the call, with the two messages of this call
updatedHistory(c) ==
    keepLast(c.chatHistory \o <<HumanMessage(c.session), AIMessage(c.session)>>)

Unfinished == {k \in 1..Len(chats) : chats[k].pc # "done"}

\* the parts of a step of a chat request: the request, the agent and client
\* it acts on, the history
CommitChat(k, c, Y, history, record) ==
    /\ Len(Y.client.req) <= MaxAgentReq
    /\ Commit(Y.client)
    /\ agent' = Y.agent
    /\ inv' = Y.inv
    /\ chats' = IF k > Len(chats) THEN Append(chats, c) ELSE [chats EXCEPT ![k] = c]
    /\ conversationHistory' = history
    /\ said' = record
    /\ callLog' = NoCall
    /\ UNCHANGED <<pure, health>>

\* POST /api/chat: createSSEStream (writeHead, 'start', heartbeat interval,
\* close handler) where stream is set, then processMessage up to the await of
\* the language model
ChatRequest(session, stream) ==
    LET forgotten == {i \in 1..Len(chats) : chats[i].pc = "done" /\ ~chats[i].stream}
        k == IF forgotten # {} THEN CHOOSE i \in forgotten : \A j \in forgotten : i <= j
             ELSE Len(chats) + 1
        c == [session |-> session, stream |-> stream, pc |-> "llm", outcome |-> "pending",
              chatHistory |-> conversationHistory[session], tool |-> 0,
              isActive |-> stream, heartbeat |-> stream, closed |-> FALSE,
              log |-> IF stream THEN <<"start">> ELSE <<>>]
    IN  /\ Cardinality(Unfinished) < MaxOverlap
        /\ Unfinished # {} => said[session].n < 2 * MaxRaced
        /\ IF ~agent.created
           THEN CommitChat(k, routeThrew(c), Sys, conversationHistory, said)
           ELSE CommitChat(k, c,
                           [Sys EXCEPT !.agent.cached =
                                            IF agent.mgrTools # NoTools THEN session ELSE @],
                           conversationHistory, said)

\* processMessage returns: the history is stored, the route ends the stream
returned(k, c, n) ==
    CommitChat(k, routeReturned(sendTokens(c, n)), Sys,
               [conversationHistory EXCEPT ![c.session] = updatedHistory(c)],
               [said EXCEPT ![c.session].n = @ + 2])

\* the first answer of the language model: an error, a text of n characters,
\* or a call of a tool that is or is not among this.tools
LlmReplied(k, reply, n) ==
    /\ k \in 1..Len(chats)
    /\ chats[k].pc = "llm"
    /\ LET c == chats[k] IN
       CASE reply = "error" ->
                CommitChat(k, processMessageCatch(c), Sys, conversationHistory, said)
         [] reply = "text" -> returned(k, c, n)
         [] reply = "unknown_tool" ->
                CommitChat(k, [emit(emit(c, "tool_call"), "error") EXCEPT !.pc = "final"],
                           Sys, conversationHistory, said)
         [] reply = "tool" ->
                /\ agent.tools # NoTools
                /\ LET Y == executeInternal(Sys)
                       c1 == emit(c, "tool_call")
                   IN  IF Len(Y.client.req) = Len(req)
                       THEN CommitChat(k, [emit(c1, "error") EXCEPT !.pc = "final"],
                                       Sys, conversationHistory, said)
                       ELSE CommitChat(k, [c1 EXCEPT !.pc = "tool",
                                                     !.tool = Len(Y.client.req)],
                                       Y, conversationHistory, said)

\* executeInternal has returned or thrown: tool_result or error, then the
\* second call of the language model
ToolDone(k) ==
    /\ k \in 1..Len(chats)
    /\ chats[k].pc = "tool"
    /\ inv[chats[k].tool].outcome # "pending"
    /\ CommitChat(k, [emit(chats[k], IF inv[chats[k].tool].outcome = "returned"
                                     THEN "tool_result" ELSE "error")
                        EXCEPT !.pc = "final"],
                  Sys, conversationHistory, said)

\* the second answer of the language model
FinalReplied(k, failed, n) ==
    /\ k \in 1..Len(chats)
    /\ chats[k].pc = "final"
    /\ IF failed
       THEN CommitChat(k, processMessageCatch(chats[k]), Sys, conversationHistory, said)
       ELSE returned(k, chats[k], n)

\* the heartbeat interval of the stream of request k
Heartbeat(k) ==
    /\ k \in 1..Len(chats)
    /\ chats[k].heartbeat
    /\ Cardinality({i \in 1..Len(chats[k].log) : chats[k].log[i] = "heartbeat"}) < MaxHeartbeats
    /\ CommitChat(k, IF chats[k].isActive
                     THEN [chats[k] EXCEPT !.log = Append(@, "heartbeat")]
                     ELSE chats[k],
                  Sys, conversationHistory, said)

\* the 'close' event of the response of request k
ClientClose(k) ==
    /\ k \in 1..Len(chats)
    /\ chats[k].stream
    /\ ~chats[k].closed
    /\ CommitChat(k, [cleanup(chats[k]) EXCEPT !.closed = TRUE],
                  Sys, conversationHistory, said)

\* DELETE /api/sessions/:sessionId -> clearSession
ClearSession(session) ==
    /\ conversationHistory[session] # <<>>
    /\ conversationHistory' = [conversationHistory EXCEPT ![session] = <<>>]
    /\ said' = [said EXCEPT ![session].cleared = said[session].n]
    /\ UNCHANGED <<sessionId, tools, isConnected, initialized, pendingRequests,
                   eventSource, req, conn, handshake, callLog, agent, inv, pure,
                   health, chats>>

ClearAllSessions ==
    /\ \E session \in Conversations : conversationHistory[session] # <<>>
    /\ conversationHistory' = [session \in Conversations |-> <<>>]
    /\ said' = [session \in Conversations |->
                    [n |-> said[session].n, cleared |-> said[session].n]]
    /\ UNCHANGED <<sessionId, tools, isConnected, initialized, pendingRequests,
                   eventSource, req, conn, handshake, callLog, agent, inv, pure,
                   health, chats>>

LlmReplies == {"error", "text", "unknown_tool", "tool"}

\* the agent is initialized by index.ts; the server, the network and the
\* timers act on the client
AgentEnvironment ==
    \/ AgentInitialize
    \/ \E c \in 1..ConnectCalls, m \in AgentMessages : AgentOnMessage(c, m)
    \/ \E c \in 1..ConnectCalls : AgentOnError(c)
    \/ \E c \in 1..ConnectCalls : AgentSessionTimeout(c)
    \/ \E id \in 1..MaxAgentReq : AgentRequestTimeout(id)
    \/ \E id \in 1..MaxAgentReq : AgentPostFailed(id)

\* one streaming chat request
NextChat ==
    /\ \/ AgentEnvironment
       \/ \E session \in ChatSessions : ChatRequest(session, TRUE)
       \/ \E k \in 1..MaxStreams, reply \in LlmReplies, n \in 0..MaxTokens : LlmReplied(k, reply, n)
       \/ \E k \in 1..MaxStreams : ToolDone(k)
       \/ \E k \in 1..MaxStreams, failed \in BOOLEAN, n \in 0..MaxTokens : FinalReplied(k, failed, n)
       \/ \E k \in 1..MaxStreams : Heartbeat(k)
       \/ \E k \in 1..MaxStreams : ClientClose(k)
    /\ Len(req') <= MaxChatReq
    /\ Len(chats') <= MaxStreams

SpecChat == Init /\ [][NextChat]_vars

\* chat requests without stream, one after the other or overlapping, and the
\* two operations that clear
NextHistory ==
    /\ \/ AgentEnvironment
       \/ \E session \in Conversations : ChatRequest(session, FALSE)
       \/ \E k \in 1..MaxOverlap, reply \in LlmReplies : LlmReplied(k, reply, 0)
       \/ \E k \in 1..MaxOverlap : ToolDone(k)
       \/ \E k \in 1..MaxOverlap, failed \in BOOLEAN : FinalReplied(k, failed, 0)
       \/ \E session \in Conversations : ClearSession(session)
       \/ ClearAllSessions
    /\ Len(req') <= MaxHistoryReq
    /\ \A session \in ChatSessions : said'[session].n <= 2 * MaxChats
    /\ \A session \in Conversations \ ChatSessions : said'[session].n <= 2 * MaxOtherChats

SpecHistory == Init /\ [][NextHistory]_vars

\* ---- MCPToolWrapper.formatToolResult ---------------------------------------
Absent == "<undefined>"                \* a member that the object does not have
NoOutput == "Tool executed successfully with no output"

ItemTypes == {"text", "image", "resource", "audio"}
Texts == {Absent, "", "first", "second"}
Urls == {Absent, "u"}
Items == [type : ItemTypes, text : Texts, url : Urls]
Contents == UNION {[1..n -> Items] : n \in 0..MaxContent}

\* MCPToolResult: content missing, or a list of items
FormatInputs ==
    {[hasContent |-> FALSE, content |-> <<>>]}
    \cup {[hasContent |-> TRUE, content |-> c] : c \in Contents}

\* Array.prototype.join
RECURSIVE join(_, _)
join(seq, sep) ==
    IF seq = <<>> THEN ""
    ELSE IF Len(seq) = 1 THEN seq[1]
    ELSE seq[1] \o sep \o join(Tail(seq), sep)

\* JSON.stringify of one item and of the content list (members in the order
\* type, text, url)
stringifyItem(item) ==
    "{\"type\":\"" \o item.type \o "\""
    \o (IF item.text # Absent THEN ",\"text\":\"" \o item.text \o "\"" ELSE "")
    \o (IF item.url # Absent THEN ",\"url\":\"" \o item.url \o "\"" ELSE "")
    \o "}"

stringifyContent(content) ==
    "[" \o join([i \in 1..Len(content) |-> stringifyItem(content[i])], ",") \o "]"

\* item.type === 'text' && item.text
IsNonEmptyText(item) == item.type = "text" /\ item.text # Absent /\ item.text # ""

IsNotText(item) == item.type # "text"

\* the switch of formatToolResult
placeholder(item) ==
    CASE item.type = "image" ->
            "[Image: " \o (IF item.url \in {Absent, ""} THEN "data" ELSE item.url) \o "]"
      [] item.type = "resource" ->
            "[Resource: " \o (IF item.url \in {Absent, ""} THEN "unknown" ELSE item.url) \o "]"
      [] OTHER -> "[" \o item.type \o ": " \o stringifyItem(item) \o "]"

\* the text items are joined with a blank
formatToolResult_BlankJoined(result) ==
    IF ~result.hasContent \/ Len(result.content) = 0
    THEN NoOutput
    ELSE LET texts == SelectSeq(result.content, IsNonEmptyText)
             textContent == join([i \in 1..Len(texts) |-> texts[i].text], " ")
             others == SelectSeq(result.content, IsNotText)
             otherContent == join([i \in 1..Len(others) |-> placeholder(others[i])], "\n")
         IN  IF textContent # "" THEN textContent
             ELSE IF otherContent # "" THEN otherContent
             ELSE stringifyContent(result.content)

formatToolResult(result) ==
    IF ~result.hasContent \/ Len(result.content) = 0
    THEN NoOutput
    ELSE LET texts == SelectSeq(result.content, IsNonEmptyText)
             textContent == join([i \in 1..Len(texts) |-> texts[i].text], "\n")
             others == SelectSeq(result.content, IsNotText)
             otherContent == join([i \in 1..Len(others) |-> placeholder(others[i])], "\n")
         IN  IF textContent # "" THEN textContent
             ELSE IF otherContent # "" THEN otherContent
             ELSE stringifyContent(result.content)

InitFormat ==
    /\ InitProgram
    /\ pure \in {[fn |-> "formatToolResult", arg |-> r, done |-> FALSE, out |-> ""] :
                    r \in FormatInputs}

FormatToolResult ==
    /\ pure.fn = "formatToolResult"
    /\ ~pure.done
    /\ pure' = [pure EXCEPT !.done = TRUE, !.out = formatToolResult(pure.arg)]
    /\ UNCHANGED programVars

NextFormat == FormatToolResult

SpecFormat == InitFormat /\ [][NextFormat]_vars

\* ---- MCPToolWrapper.mapInputToSchema ---------------------------------------
\* JavaScript values of an argument set
Num(n) == [t |-> "number", n |-> n, s |-> ""]
Str(s) == [t |-> "string", n |-> 0, s |-> s]
Bool(b) == [t |-> "boolean", n |-> IF b THEN 1 ELSE 0, s |-> ""]
Null == [t |-> "null", n |-> 0, s |-> ""]
ArrayOf(s) == [t |-> "array", n |-> 1, s |-> s]      \* [value]
EmptyArray == [t |-> "array", n |-> 0, s |-> ""]
ObjectOf(s) == [t |-> "object", n |-> 1, s |-> s]    \* { value }
EmptyObject == [t |-> "object", n |-> 0, s |-> ""]

\* the words of a free-text input, and what the regular expressions and
\* conversions of the code make of each
Words == {"5", "3", "add", "ADD", "x7"}

\* input.match(/(\d+(?:\.\d+)?)/g), word by word (no match spans a blank)
numberMatchesOf(w) ==
    CASE w = "5" -> <<"5">>
      [] w = "3" -> <<"3">>
      [] w = "x7" -> <<"7">>
      [] OTHER -> <<>>

\* /^\d+(\.\d+)?$/.test(word)
isNumericWord(w) == w \in {"5", "3", "7"}

toLowerCase(w) == IF w = "ADD" THEN "add" ELSE w

\* parseFloat / parseInt read the longest numeric prefix; -1 stands for NaN
parseNumber(str) ==
    LET first == IF str = <<>> THEN "" ELSE str[1] IN
    CASE first = "5" -> 5
      [] first = "3" -> 3
      [] first = "7" -> 7
      [] OTHER -> -1

\* lower-cased name.includes(keyword), for the names of Schemas
nameIncludes(name, keyword) ==
    \/ name = "query" /\ keyword = "query"
    \/ name = "category" /\ keyword = "category"
    \/ name = "title" /\ keyword = "title"

\* a free-text input is the sequence of its words (split(/\s+/) of the trimmed
\* string); the string itself is the words joined by blanks
FreeTexts == UNION {[1..n -> Words] : n \in 1..MaxWords}
text(ws) == join(ws, " ")

Prop(name, type, enum) == [name |-> name, type |-> type, enum |-> enum]
NoEnum == <<>>

TwoNumbers ==
    <<Prop("firstNumber", "number", NoEnum), Prop("secondNumber", "number", NoEnum)>>
Calculator ==
    <<Prop("firstNumber", "number", NoEnum), Prop("secondNumber", "integer", NoEnum),
      Prop("operation", "string", <<"add", "subtract">>)>>
Search ==
    <<Prop("category", "string", NoEnum), Prop("query", "string", NoEnum),
      Prop("limit", "integer", NoEnum)>>
Catalog ==
    <<Prop("category", "string", NoEnum), Prop("title", "string", NoEnum)>>
Flags ==
    <<Prop("count", "integer", NoEnum), Prop("verbose", "boolean", NoEnum)>>
OneEnum == <<Prop("category", "string", <<"add", "subtract">>)>>

\* inputSchema: properties in declared order, and required
Schemas ==
    {[props |-> TwoNumbers, required |-> <<>>],
     [props |-> TwoNumbers, required |-> <<"firstNumber", "secondNumber">>],
     [props |-> Calculator, required |-> <<"operation">>],
     [props |-> Search, required |-> <<"query">>],
     [props |-> Catalog, required |-> <<"title">>],
     [props |-> Flags, required |-> <<"verbose">>],
     [props |-> OneEnum, required |-> <<>>],
     [props |-> <<>>, required |-> <<>>]}

IsNumericProp(prop) == prop.type \in {"number", "integer"}
IsStringProp(prop) == prop.type = "string"
hasEnum(prop) == prop.enum # NoEnum
inEnum(prop, w) == \E i \in 1..Len(prop.enum) : prop.enum[i] = w

\* properties[name]
propertyOf(schema, name) ==
    LET i == CHOOSE i \in 1..Len(schema.props) : schema.props[i].name = name
    IN  schema.props[i]

declared(schema, name) == \E i \in 1..Len(schema.props) : schema.props[i].name = name

convertValueToSchemaType(str, prop) ==
    CASE prop.type \in {"number", "integer"} ->
            IF parseNumber(str) = -1 THEN Num(0) ELSE Num(parseNumber(str))
      [] prop.type = "boolean" ->
            Bool(text(str) \in {"true", "TRUE", "True", "1"})
      [] prop.type = "string" -> Str(text(str))
      [] prop.type = "array" -> ArrayOf(text(str))
      [] prop.type = "object" -> ObjectOf(text(str))
      [] OTHER -> Str(text(str))

getPropertyPriority(prop) ==
    IF nameIncludes(prop.name, "query") \/ nameIncludes(prop.name, "search") THEN 10
    ELSE IF nameIncludes(prop.name, "name") \/ nameIncludes(prop.name, "title") THEN 9
    ELSE IF nameIncludes(prop.name, "id") THEN 8
    ELSE IF nameIncludes(prop.name, "category") \/ nameIncludes(prop.name, "type") THEN 7
    ELSE IF nameIncludes(prop.name, "text") \/ nameIncludes(prop.name, "content") THEN 6
    ELSE IF nameIncludes(prop.name, "description") \/ nameIncludes(prop.name, "summary") THEN 5
    ELSE IF hasEnum(prop) THEN 4
    ELSE 1

getDefaultValueForSchema(prop) ==
    CASE prop.type \in {"number", "integer"} -> Num(0)
      [] prop.type = "boolean" -> Bool(FALSE)
      [] prop.type = "string" -> IF hasEnum(prop) THEN Str(prop.enum[1]) ELSE Str("")
      [] prop.type = "array" -> EmptyArray
      [] prop.type = "object" -> EmptyObject
      [] OTHER -> Null

\* the matches of the whole input, in order of appearance
RECURSIVE numberMatches(_)
numberMatches(ws) ==
    IF ws = <<>> THEN <<>> ELSE numberMatchesOf(Head(ws)) \o numberMatches(Tail(ws))

\* result[name] = value
put(result, name, value) == [n \in DOMAIN result \cup {name} |->
                                IF n = name THEN value ELSE result[n]]

\* the numbers are given to the numeric parameters last to first
assignNumbers_Reversed(numericProps, matches) ==
    LET k == IF Len(matches) < Len(numericProps) THEN Len(matches) ELSE Len(numericProps) IN
    [n \in {numericProps[i].name : i \in 1..k} |->
        LET i == CHOOSE i \in 1..k : numericProps[i].name = n
        IN  convertValueToSchemaType(<<matches[k + 1 - i]>>, numericProps[i])]

\* numericProps.forEach((prop, index) => ...)
assignNumbers(numericProps, matches) ==
    LET k == IF Len(matches) < Len(numericProps) THEN Len(matches) ELSE Len(numericProps) IN
    [n \in {numericProps[i].name : i \in 1..k} |->
        LET i == CHOOSE i \in 1..k : numericProps[i].name = n
        IN  convertValueToSchemaType(<<matches[i]>>, numericProps[i])]

\* words.splice(words.indexOf(w), 1)
removeFirst(ws, w) ==
    LET i == CHOOSE i \in 1..Len(ws) : ws[i] = w /\ \A j \in 1..(i - 1) : ws[j] # w
    IN  SubSeq(ws, 1, i - 1) \o SubSeq(ws, i + 1, Len(ws))

\* the loop over the enum properties: the first enum property with a matching
\* word takes it, and the loop ends
RECURSIVE matchEnums(_, _, _, _)
matchEnums(stringProps, i, ws, result) ==
    IF i > Len(stringProps) THEN [words |-> ws, result |-> result]
    ELSE LET prop == stringProps[i]
             hits == {j \in 1..Len(ws) : inEnum(prop, toLowerCase(ws[j])) \/ inEnum(prop, ws[j])}
         IN  IF hasEnum(prop) /\ hits # {} /\ prop.name \notin DOMAIN result
             THEN LET j == CHOOSE j \in hits : \A k \in hits : j <= k IN
                  [words |-> removeFirst(ws, ws[j]), result |-> put(result, prop.name, Str(ws[j]))]
             ELSE matchEnums(stringProps, i + 1, ws, result)

\* the loop that gives one word to each string property still without value
RECURSIVE mapWords(_, _, _, _)
mapWords(stringProps, i, ws, result) ==
    IF i > Len(stringProps) \/ ws = <<>> THEN [words |-> ws, result |-> result]
    ELSE LET prop == stringProps[i] IN
         IF prop.name \in DOMAIN result
         THEN mapWords(stringProps, i + 1, ws, result)
         ELSE IF Len(ws) = 1 \/ getPropertyPriority(prop) > 0
              THEN mapWords(stringProps, i + 1, Tail(ws), put(result, prop.name, Str(Head(ws))))
              ELSE mapWords(stringProps, i + 1, ws, result)

\* the words left over are joined into the first string property without value
joinRemaining(stringProps, ws, result) ==
    LET IsFree(prop) == prop.name \notin DOMAIN result
        free == SelectSeq(stringProps, IsFree)
    IN  IF ws # <<>> /\ free # <<>> THEN put(result, free[1].name, Str(text(ws))) ELSE result

\* required properties still missing get the default of their type; one that
\* the schema does not declare throws (propSchema is undefined)
RECURSIVE fillRequired(_, _, _)
fillRequired(schema, i, result) ==
    IF i > Len(schema.required) THEN [threw |-> FALSE, args |-> result]
    ELSE LET name == schema.required[i] IN
         IF name \in DOMAIN result THEN fillRequired(schema, i + 1, result)
         ELSE IF ~declared(schema, name) THEN [threw |-> TRUE, args |-> <<>>]
         ELSE fillRequired(schema, i + 1,
                           put(result, name, getDefaultValueForSchema(propertyOf(schema, name))))

\* the string property named like a query, a name, an id, a search or a text
bestMatch(stringProps) ==
    LET IsBest(prop) == \E k \in {"query", "name", "id", "search", "text"} :
                            nameIncludes(prop.name, k)
        best == SelectSeq(stringProps, IsBest)
    IN  IF best # <<>> THEN best[1].name ELSE stringProps[1].name

\* mapInputToSchema for a string input ws against schema
mapInputToSchema(ws, schema) ==
    LET props == schema.props
        numericProps == SelectSeq(props, IsNumericProp)
        stringProps == SelectSeq(props, IsStringProp)
        matches == numberMatches(ws)
        NotNumeric(w) == ~isNumericWord(w)
        nonNumericWords == SelectSeq(ws, NotNumeric)
        r1 == IF matches # <<>> /\ numericProps # <<>>
              THEN assignNumbers(numericProps, matches) ELSE <<>>
        r2 == IF stringProps # <<>> /\ nonNumericWords # <<>>
              THEN LET e == matchEnums(stringProps, 1, nonNumericWords, r1)
                       m == mapWords(stringProps, 1, e.words, e.result)
                   IN  joinRemaining(stringProps, m.words, m.result)
              ELSE r1
    IN  IF props = <<>> THEN [threw |-> FALSE, args |-> put(<<>>, "input", Str(text(ws)))]
        ELSE IF Len(props) = 1
        THEN [threw |-> FALSE,
              args |-> put(<<>>, props[1].name, convertValueToSchemaType(ws, props[1]))]
        ELSE IF DOMAIN r2 # {} THEN fillRequired(schema, 1, r2)
        ELSE IF stringProps # <<>>
        THEN [threw |-> FALSE, args |-> put(<<>>, bestMatch(stringProps), Str(text(ws)))]
        ELSE IF schema.required # <<>>
        THEN IF ~declared(schema, schema.required[1]) THEN [threw |-> TRUE, args |-> <<>>]
             ELSE [threw |-> FALSE,
                   args |-> put(<<>>, schema.required[1],
                                convertValueToSchemaType(ws, propertyOf(schema, schema.required[1])))]
        ELSE [threw |-> FALSE,
              args |-> put(<<>>, props[1].name, convertValueToSchemaType(ws, props[1]))]

InitMap ==
    /\ InitProgram
    /\ pure \in {[fn |-> "mapInputToSchema", arg |-> [input |-> ws, schema |-> s],
                  done |-> FALSE, out |-> [threw |-> FALSE, args |-> <<>>]] :
                    ws \in FreeTexts, s \in Schemas}

MapInputToSchema ==
    /\ pure.fn = "mapInputToSchema"
    /\ ~pure.done
    /\ pure' = [pure EXCEPT !.done = TRUE,
                            !.out = mapInputToSchema(pure.arg.input, pure.arg.schema)]
    /\ UNCHANGED programVars

NextMap == MapInputToSchema

SpecMap == InitMap /\ [][NextMap]_vars

\* ---- MCPToolWrapper.executeInternal: the arguments of the call --------------
Undefined == [t |-> "undefined", n |-> 0, s |-> ""]
ArrayOfValue(v) == [t |-> "array", item |-> v]       \* [value], value not a string
ObjectOfValue(v) == [t |-> "object", value |-> v]    \* { value }, value not a string

\* value.toString()
RECURSIVE toStringOf(_)
toStringOf(value) ==
    CASE value.t = "number" ->
            (CASE value.n = 0 -> "0" [] value.n = 3 -> "3" [] value.n = 5 -> "5"
               [] value.n = 7 -> "7")
      [] value.t = "boolean" -> IF value.n = 1 THEN "true" ELSE "false"
      [] value.t = "string" -> value.s
      [] value.t = "array" ->
            IF "item" \in DOMAIN value THEN toStringOf(value.item)
            ELSE value.s                                     \* '' for []
      [] value.t = "object" -> "[object Object]"

\* parseFloat of the strings that occur as values of a structured input;
\* -1 stands for NaN
parseFloatOf(s) ==
    CASE s = "0" -> 0
      [] s = "3" -> 3
      [] s = "5" -> 5
      [] s = "7" -> 7
      [] OTHER -> -1

\* Boolean(value)
truthy(value) ==
    CASE value.t = "number" -> value.n # 0
      [] value.t = "boolean" -> value.n = 1
      [] value.t = "string" -> value.s # ""
      [] value.t \in {"array", "object"} -> TRUE
      [] OTHER -> FALSE

\* convertValueToSchemaType for a value that is a number or a boolean
convertScalarToSchemaType(value, prop) ==
    CASE prop.type \in {"number", "integer"} ->
            IF parseFloatOf(toStringOf(value)) = -1 THEN Num(0)
            ELSE Num(parseFloatOf(toStringOf(value)))
      [] prop.type = "boolean" -> Bool(truthy(value))
      [] prop.type = "string" -> Str(toStringOf(value))
      [] prop.type = "array" -> ArrayOfValue(value)
      [] prop.type = "object" -> ObjectOfValue(value)
      [] OTHER -> value

\* mapInputToSchema for an input that is a number or a boolean: the block for
\* strings is skipped
mapScalarToSchema(value, schema) ==
    LET props == schema.props IN
    IF props = <<>> THEN [threw |-> FALSE, args |-> put(<<>>, "input", value)]
    ELSE IF Len(props) = 1
    THEN [threw |-> FALSE,
          args |-> put(<<>>, props[1].name, convertScalarToSchemaType(value, props[1]))]
    ELSE IF schema.required # <<>>
    THEN IF ~declared(schema, schema.required[1]) THEN [threw |-> TRUE, args |-> <<>>]
         ELSE [threw |-> FALSE,
               args |-> put(<<>>, schema.required[1],
                            convertScalarToSchemaType(value,
                                                      propertyOf(schema, schema.required[1])))]
    ELSE [threw |-> FALSE,
          args |-> put(<<>>, props[1].name, convertScalarToSchemaType(value, props[1]))]

\* the inputs of executeInternal: a string (the sequence of its words, none for
\* ""), a number or a boolean, an object with its fields, undefined or null
StringInput(ws) == [kind |-> "string", ws |-> ws]
ScalarInput(v) == [kind |-> "scalar", value |-> v]
ObjectInput(fields) == [kind |-> "object", fields |-> fields]
NoInput == [kind |-> "undefined"]

\* if (input)
isTruthyInput(input) ==
    CASE input.kind = "string" -> input.ws # <<>>
      [] input.kind = "scalar" -> truthy(input.value)
      [] input.kind = "object" -> TRUE
      [] OTHER -> FALSE

\* the names every object literal inherits from Object.prototype, of which
\* properties[key] is a function and `key in cleanedArgs` is true
ObjectPrototype == {"constructor"}

\* if (properties[key])
hasProperty(schema, key) == declared(schema, key) \/ key \in ObjectPrototype

\* a field of the arguments after the switch on the declared type; kept is
\* FALSE where the field is left out
cleaned(value, prop) ==
    CASE prop.type \in {"number", "integer"} ->
            IF value \in {Null, Undefined} \/ parseFloatOf(toStringOf(value)) = -1
            THEN [kept |-> FALSE, value |-> Null]
            ELSE [kept |-> TRUE, value |-> Num(parseFloatOf(toStringOf(value)))]
      [] prop.type = "string" ->
            IF value \in {Null, Undefined} THEN [kept |-> FALSE, value |-> Null]
            ELSE [kept |-> TRUE, value |-> Str(toStringOf(value))]
      [] prop.type = "boolean" ->
            IF value \in {Null, Undefined} THEN [kept |-> FALSE, value |-> Null]
            ELSE [kept |-> TRUE, value |-> Bool(truthy(value))]
      [] OTHER -> [kept |-> TRUE, value |-> value]

\* the loop over the required properties: a missing number, string or boolean
\* gets 0, '' or false
RECURSIVE backfill(_, _, _)
backfill(schema, i, args) ==
    IF i > Len(schema.required) THEN args
    ELSE LET name == schema.required[i]
             type == IF declared(schema, name) THEN propertyOf(schema, name).type ELSE "none"
         IN  IF name \in DOMAIN args \cup ObjectPrototype THEN backfill(schema, i + 1, args)
             ELSE IF type \in {"number", "integer"} THEN backfill(schema, i + 1, put(args, name, Num(0)))
             ELSE IF type = "string" THEN backfill(schema, i + 1, put(args, name, Str("")))
             ELSE IF type = "boolean" THEN backfill(schema, i + 1, put(args, name, Bool(FALSE)))
             ELSE backfill(schema, i + 1, args)

\* propSchema.type is undefined for an inherited name: the default branch
validateAndCleanArgs(args, schema) ==
    LET keys == {key \in DOMAIN args :
                    /\ hasProperty(schema, key)
                    /\ declared(schema, key) => cleaned(args[key], propertyOf(schema, key)).kept}
        cleanedArgs == [key \in keys |->
                            IF declared(schema, key)
                            THEN cleaned(args[key], propertyOf(schema, key)).value
                            ELSE args[key]]
    IN  backfill(schema, 1, cleanedArgs)

\* mcpArguments after validateAndCleanArgs; inferred tells whether
\* mapInputToSchema was applied, mapped is what it returned
mcpArguments(input, schema) ==
    LET inferred == input.kind # "object" /\ isTruthyInput(input)
        m == IF ~inferred THEN [threw |-> FALSE, args |-> <<>>]
             ELSE IF input.kind = "string" THEN mapInputToSchema(input.ws, schema)
             ELSE mapScalarToSchema(input.value, schema)
        before == IF input.kind = "object" THEN input.fields ELSE m.args
    IN  [inferred |-> inferred, threw |-> m.threw, mapped |-> m.args,
         args |-> IF m.threw THEN <<>> ELSE validateAndCleanArgs(before, schema)]

\* the schemas of the tools: those of Schemas, and {category: string(enum)},
\* {query: string} required, {count: integer}, {items: array, query: string}
\* with items required
Category == <<Prop("category", "string", <<"laptops", "phones">>)>>
Query == <<Prop("query", "string", NoEnum)>>
Count == <<Prop("count", "integer", NoEnum)>>
Batch == <<Prop("items", "array", NoEnum), Prop("query", "string", NoEnum)>>

ToolSchemas ==
    Schemas \cup
    {[props |-> Category, required |-> <<>>],
     [props |-> Query, required |-> <<"query">>],
     [props |-> Count, required |-> <<>>],
     [props |-> Batch, required |-> <<"items">>]}

\* the fields of a structured input
StructuredInputs ==
    {<<>>,
     "query" :> Str("add"),
     "query" :> Null,
     "query" :> Str("add") @@ "constructor" :> Str("add"),
     "count" :> Str("x7"),
     "firstNumber" :> Str("5") @@ "other" :> Num(3),
     "verbose" :> Str("false"),
     "items" :> ArrayOf("add")}

ToolInputs ==
    {StringInput(ws) : ws \in FreeTexts \cup {<<>>, <<"laptops">>}}
    \cup {ScalarInput(v) : v \in {Num(0), Num(5), Bool(FALSE), Bool(TRUE)}}
    \cup {ObjectInput(fields) : fields \in StructuredInputs}
    \cup {NoInput}

InitArguments ==
    /\ InitProgram
    /\ pure \in {[fn |-> "executeInternal", arg |-> [input |-> i, schema |-> s],
                  done |-> FALSE,
                  out |-> [inferred |-> FALSE, threw |-> FALSE, mapped |-> <<>>, args |-> <<>>]] :
                    i \in ToolInputs, s \in ToolSchemas}

\* executeInternal up to the call of callTool
ExecuteInternalArguments ==
    /\ pure.fn = "executeInternal"
    /\ ~pure.done
    /\ pure' = [pure EXCEPT !.done = TRUE,
                            !.out = mcpArguments(pure.arg.input, pure.arg.schema)]
    /\ UNCHANGED programVars

NextArguments == ExecuteInternalArguments

SpecArguments == InitArguments /\ [][NextArguments]_vars

\* ---- the correlation registry --------------------------------------------
Issued == 1..Len(req)
Completed(id) == req[id].outcome # "pending"
ByReply(id) == req[id].outcome \in {"success", "protocol_error"}

\* C1: the promise of every request settles at most once (an outcome, once
\* set, is never replaced by a later reply, timer or POST failure), and a
\* request whose promise has settled has no entry in pendingRequests.
C1_NoEntryAfterCompletion ==
    \A id \in Issued : Completed(id) => id \notin pendingRequests

C1_OutcomeFinal ==
    \A id \in Issued : Completed(id) => req'[id].outcome = req[id].outcome

C1_ExactlyOnce == []C1_NoEntryAfterCompletion /\ [][C1_OutcomeFinal]_vars

\* a reply completed the request and its timer, never cleared, fired afterwards
C1_Witness ==
    \E id \in Issued : ByReply(id) /\ req[id].timer = "off" /\ req[id].post = "sent"

\* C2 (as claimed): the step of disconnect() completes every pending request
\* with a disconnect error.
C2_DisconnectCompletesPending ==
    [][(sessionId # NoSession /\ sessionId' = NoSession)
        => \A id \in pendingRequests : req'[id].outcome = "disconnect_error"]_vars

C4_ReplyCompletesOnlyItsRequest ==
    \A m \in Messages :
        (m.id # 0 /\ m.id \in pendingRequests) =>
            LET T == handleSSEMessage(State, m) IN
            /\ T.req[m.id].outcome = IF m.error THEN "protocol_error" ELSE "success"
            /\ m.id \notin T.pendingRequests
            /\ \A y \in Issued \ {m.id} :
                /\ T.req[y] = req[y]
                /\ (y \in T.pendingRequests) = (y \in pendingRequests)

\* the request issued later was answered first
C4_Witness ==
    \E x, y \in Issued :
        /\ x < y
        /\ x \in pendingRequests /\ req[x].outcome = "pending"
        /\ req[y].outcome = "success"

\* C5: a message without identifier, or with an identifier that has no pending
\* entry, removes no registry entry, changes no issued request and leaves the
\* stream open.
Unmatched(m) == m.id = 0 \/ m.id \notin pendingRequests

C5_UnmatchedMessageDropped ==
    \A c \in 1..Len(conn), m \in Messages :
        (conn[c].open /\ Unmatched(m)) =>
            LET T == onmessage(State, c, m) IN
            /\ T.pendingRequests \cap Issued = pendingRequests
            /\ \A y \in Issued : T.req[y] = req[y]
            /\ T.conn[c].open

\* one request still pending while another identifier is no longer registered
C5_Witness ==
    /\ pendingRequests # {}
    /\ \E id \in Issued : Completed(id)
    /\ \E c \in 1..Len(conn) : conn[c].open /\ conn[c].sessionIdReceived

\* C6: when the timer of a request that no reply has completed expires, the
\* entry is removed and the promise rejects with the timeout error; a reply for
\* that identifier afterwards changes nothing.
C6_TimeoutThenLateReplyDropped ==
    \A id \in Issued :
        /\ (req[id].timer = "armed" /\ ~ByReply(id)) =>
                LET T == requestTimeout(State, id) IN
                /\ T.req[id].outcome = "timeout_error"
                /\ id \notin T.pendingRequests
                /\ \A m \in Messages : m.id = id => handleSSEMessage(T, m) = T
        /\ req[id].outcome = "timeout_error" =>
                \A m \in Messages : m.id = id => handleSSEMessage(State, m) = State

\* a request timed out while another one is still pending
C6_Witness ==
    \E id \in Issued : req[id].outcome = "timeout_error" /\ pendingRequests # {}

\* C7 (as claimed): a request whose POST failed has been failed with the
\* transmission error, has no registry entry and no running timer.
C7_PostFailureFailsCaller ==
    \A id \in Issued :
        req[id].post = "failed" =>
            /\ req[id].outcome = "transmission_error"
            /\ id \notin pendingRequests
            /\ req[id].timer # "armed"

\* C7 (amended): the failure of the POST fails a request that is still pending
\* with the transmission error; in every case it leaves the request completed,
\* without registry entry and without running timer.
C7_PostFailureFailsPendingCaller ==
    \A id \in Issued :
        /\ req[id].post = "sent" =>
                LET T == postFailed(State, id) IN
                /\ ~Completed(id) => T.req[id].outcome = "transmission_error"
                /\ Completed(id) => T.req[id].outcome = req[id].outcome
                /\ id \notin T.pendingRequests
                /\ T.req[id].timer # "armed"
        /\ req[id].post = "failed" =>
                /\ Completed(id)
                /\ id \notin pendingRequests
                /\ req[id].timer # "armed"

\* the POST of a pending request failed
C7_Witness ==
    \E id \in Issued : req[id].post = "failed" /\ req[id].outcome = "transmission_error"

\* ---- the protocol operations ----------------------------------------------
ToolRequest(id) == req[id].method \in {"tools/list", "tools/call"}

\* C8: every request was transmitted while the client held a session
\* identifier, and carries a session identifier in its params.
C8_RequestsCarrySession ==
    \A id \in Issued : req[id].held # NoSession /\ req[id].sid # NoSession

\* the three methods were transmitted, tools/call with the caller's identifier
C8_Witness ==
    \E a, b, c \in Issued :
        /\ req[a].method = "initialize"
        /\ req[b].method = "tools/list"
        /\ req[c].method = "tools/call" /\ req[c].sid = "c1" /\ req[c].held = "s1"

\* C9: under SpecApi, callTool without session identifier, called while the
\* client is not initialized or holds no session identifier, fails with
\* 'MCP client not initialized', registers nothing and transmits nothing.
C9_CallToolBeforeBootstrapRefused ==
    [][(/\ callLog'.op = "callTool"
        /\ callLog'.sid = NoSession
        /\ (~initialized \/ sessionId = NoSession))
        => (/\ callLog'.err = ErrNotInitialized
            /\ req' = req
            /\ pendingRequests' = pendingRequests)]_vars

\* the call was refused although the client already held a session identifier
C9_Witness ==
    /\ callLog.op = "callTool" /\ callLog.sid = NoSession
    /\ callLog.err = ErrNotInitialized
    /\ sessionId # NoSession

\* C10: under SpecApi, every tools/list and tools/call request was transmitted
\* while a successful initialize reply was in force (none of disconnect() and a
\* failed connect() since), and fetchTools or callTool called otherwise fails
\* with an error and transmits nothing.
C10_ToolRequestsAfterHandshake == \A id \in Issued : ToolRequest(id) => req[id].hs

C10_RefusedWithoutHandshake ==
    (callLog'.op # "none" /\ ~handshake)
        => (callLog'.err # ErrNone /\ req' = req /\ pendingRequests' = pendingRequests)

C10_HandshakeFirst ==
    []C10_ToolRequestsAfterHandshake /\ [][C10_RefusedWithoutHandshake]_vars

\* a tool call went out after the handshake, and a later one was refused
\* after the connect() call failed
C10_Witness ==
    /\ \E id \in Issued : req[id].method = "tools/call"
    /\ callLog.op = "callTool" /\ callLog.err = ErrNotInitialized
    /\ conn[1].pc = "failed"

\* ---- the session --------------------------------------------------------
\* a connect() call that has returned or thrown
Terminal == {"done", "failed"}

\* C11 (as claimed): once disconnect() has run, the client holds no session
\* identifier, and no message on a stream that is still open then (every such
\* stream was opened by an earlier connect()) sets one.
C11_NoSessionFromEarlierStream ==
    LET D == disconnect(State) IN
    /\ D.sessionId = NoSession
    /\ \A c \in 1..Len(conn), m \in Messages :
            D.conn[c].open => onmessage(D, c, m).sessionId = NoSession

\* C12: on a stream that has taken its session identifier every message goes
\* to handleSSEMessage and leaves this.sessionId alone, whatever session field
\* it carries; before that, the first message with a session field sets it and
\* a message without one goes to handleSSEMessage.  Once set, this.sessionId
\* changes only by being cleared.

C12_TakenOnce ==
    \A c \in 1..Len(conn), m \in Messages :
        conn[c].open =>
            LET T == onmessage(State, c, m) IN
            /\ conn[c].sessionIdReceived =>
                    /\ T = handleSSEMessage(State, m)
                    /\ T.sessionId = sessionId
            /\ (~conn[c].sessionIdReceived /\ m.sess # NoSession) =>
                    /\ T.sessionId = m.sess
                    /\ T.conn[c].sessionIdReceived
            /\ (~conn[c].sessionIdReceived /\ m.sess = NoSession) =>
                    /\ T = handleSSEMessage(State, m)
                    /\ ~T.conn[c].sessionIdReceived

C12_SessionKept == sessionId # NoSession => sessionId' \in {sessionId, NoSession}

C12_SessionTakenOnce == []C12_TakenOnce /\ [][C12_SessionKept]_vars

\* the stream has announced s1 and a later message on it completed a request
C12_Witness ==
    /\ sessionId = "s1"
    /\ conn[1].sessionIdReceived /\ conn[1].open
    /\ \E id \in Issued : ByReply(id)

\* C13: a stream error before the session identifier leaves the connect()
\* attempt failed and the client not connected; a stream error after it
\* changes nothing: no promise, no registry entry, no timer.
C13_StreamError ==
    \A c \in 1..Len(conn) :
        conn[c].open =>
            LET T == onerror(State, c) IN
            /\ ~conn[c].sessionIdReceived =>
                    /\ T.conn[c].pc = "failed"
                    /\ ~T.isConnected /\ ~T.initialized
            /\ conn[c].sessionIdReceived => T = State

\* connect() failed on a stream error: the stream is open, its timer still runs
C13_Witness ==
    \E c \in 1..Len(conn) :
        /\ conn[c].pc = "failed" /\ ~conn[c].sessionIdReceived
        /\ conn[c].open /\ conn[c].timer = "armed"

\* C14: under SpecTimers (session and request timers fire) every connect()
\* call ends in success or failure, and the step in which it fails leaves the
\* client not connected and not initialized.
C14_FailureLeavesDown ==
    \A c \in 1..Len(conn) :
        (conn[c].pc \notin Terminal /\ conn'[c].pc = "failed")
            => (~isConnected' /\ ~initialized')

C14_ConnectTerminates ==
    /\ \A c \in 1..ConnectCalls : (Len(conn) >= c) ~> (Len(conn) >= c /\ conn[c].pc \in Terminal)
    /\ [][C14_FailureLeavesDown]_vars

\* no session identifier arrived within the window: the timer failed the setup
C14_Witness ==
    /\ conn # <<>>
    /\ conn[1].pc = "failed" /\ conn[1].timer = "fired" /\ ~conn[1].sessionIdReceived

\* C15 (as claimed): a reply to a pending tools/list request changes
\* this.tools only if the retrieval succeeds (a reply without error whose
\* result has a tools member), and then to the list of the reply.
C15_FailedRetrievalKeepsList ==
    \A m \in Messages :
        (m.id \in pendingRequests /\ req[m.id].method = "tools/list") =>
            LET T == handleSSEMessage(State, m) IN
            T.tools # tools =>
                /\ ~m.error /\ m.result.present /\ m.result.hasTools
                /\ T.tools = [defined |-> TRUE, list |-> m.result.tools]

\* ---- the agent -----------------------------------------------------------
\* C16: under SpecAgent, once the connect() of the agent's startup has failed,
\* the agent is initialized (its executor exists) with an empty tool list;
\* callTool with any session identifier fails at once with 'MCP client not
\* initialized', an executeInternal call registers and transmits nothing, and
\* a refresh of the tools gives the empty list without a request.
C16_DegradedMode ==
    (conn # <<>> /\ conn[1].pc = "failed") =>
        /\ agent.created /\ agent.pc = "ready"
        /\ agent.tools = NoTools
        /\ \A sid \in {NoSession, PendingSessionId} \cup ChatSessions \cup ServerSessions :
                callToolGuard(State, sid) = ErrNotInitialized
        /\ executeInternal(Sys) = Sys
        /\ LET Y == initializeTools([Sys EXCEPT !.agent.op = "refresh"]) IN
           Y.client = State /\ Y.agent.tools = NoTools /\ Y.agent.pc = "ready"

\* the startup failed at the catalog stage, after session and handshake
C16_Witness ==
    /\ conn # <<>> /\ conn[1].pc = "failed"
    /\ agent.created
    /\ sessionId # NoSession
    /\ Len(req) >= 2

\* C17: under SpecAgent, an executeInternal call whose tools/call reply had a
\* result with isError set has failed: it never returned text.
C17_ErrorFlagFails ==
    \A id \in DOMAIN inv : inv[id].isError => inv[id].outcome = "failed"

\* a reply with isError reached a pending executeInternal call
C17_Witness ==
    \E id \in DOMAIN inv : inv[id].isError /\ req[id].outcome = "success"

\* C18: under SpecAgent, every request made by executeInternal is a tools/call
\* request, and if the client held a session identifier when it was made, the
\* request carries that identifier, whatever the wrapper had cached.
C18_CurrentSessionWins ==
    \A id \in DOMAIN inv :
        /\ req[id].method = "tools/call"
        /\ req[id].held # NoSession => req[id].sid = req[id].held

\* the wrapper had the chat session identifier cached, the client held s1
C18_Witness ==
    \E id \in DOMAIN inv :
        /\ inv[id].cached = "c1"
        /\ req[id].held = "s1" /\ req[id].sid = "s1"

\* ---- the text of a tool result ---------------------------------------------
Formatted == pure.fn = "formatToolResult" /\ pure.done

\* the text members of the items of type text, in order
TextsOf(content) ==
    LET IsText(item) == item.type = "text"
        items == SelectSeq(content, IsText)
    IN  [i \in 1..Len(items) |-> items[i].text]

\* the text members that are not empty, in order
NonEmptyTextsOf(content) ==
    LET items == SelectSeq(content, IsNonEmptyText)
    IN  [i \in 1..Len(items) |-> items[i].text]

PlaceholdersOf(content) ==
    LET items == SelectSeq(content, IsNotText)
    IN  [i \in 1..Len(items) |-> placeholder(items[i])]

\* C19 (as claimed): under SpecFormat, for a result whose text items all have
\* a text member, the text is the no-output message for an empty content list,
\* else the text items joined by newlines if there is a text item, else one
\* placeholder per item.
C19_TextItemsJoined ==
    (/\ Formatted
     /\ \A i \in 1..Len(pure.arg.content) :
            pure.arg.content[i].type = "text" => pure.arg.content[i].text # Absent) =>
        LET content == pure.arg.content IN
        IF ~pure.arg.hasContent \/ content = <<>> THEN pure.out = NoOutput
        ELSE IF TextsOf(content) # <<>> THEN pure.out = join(TextsOf(content), "\n")
        ELSE /\ pure.out = join(PlaceholdersOf(content), "\n")
             /\ Len(PlaceholdersOf(content)) = Len(content)

\* C19 (amended): the text is the no-output message for a missing or empty
\* content list; else the non-empty texts of the text items joined by
\* newlines if there is one; else one placeholder per item that is not a text
\* item, joined by newlines, if there is one; else (only text items without
\* text) the JSON text of the content list.
C19_NonEmptyTextItemsJoined ==
    Formatted =>
        LET content == pure.arg.content IN
        IF ~pure.arg.hasContent \/ content = <<>> THEN pure.out = NoOutput
        ELSE IF NonEmptyTextsOf(content) # <<>>
             THEN pure.out = join(NonEmptyTextsOf(content), "\n")
        ELSE IF PlaceholdersOf(content) # <<>>
             THEN pure.out = join(PlaceholdersOf(content), "\n")
        ELSE pure.out = stringifyContent(content)

\* two text items gave 'first\nsecond'
C19_Witness ==
    /\ Formatted
    /\ Len(pure.arg.content) = 2
    /\ pure.arg.content[1].type = "text" /\ pure.arg.content[1].text = "first"
    /\ pure.arg.content[2].type = "text" /\ pure.arg.content[2].text = "second"
    /\ pure.out = "first\nsecond"

\* ---- the inference of arguments --------------------------------------------
\* a free-text input was mapped against a schema with several parameters
MappedMulti ==
    /\ pure.fn = "mapInputToSchema" /\ pure.done
    /\ Len(pure.arg.schema.props) >= 2

NamesOf(props) == {props[i].name : i \in 1..Len(props)}

\* the i-th numeric substring is the value of the i-th numeric parameter
NumbersInOrder ==
    LET numericProps == SelectSeq(pure.arg.schema.props, IsNumericProp)
        matches == numberMatches(pure.arg.input)
    IN  \A i \in 1..Len(numericProps) :
            i <= Len(matches) =>
                /\ numericProps[i].name \in DOMAIN pure.out.args
                /\ pure.out.args[numericProps[i].name] = Num(parseNumber(<<matches[i]>>))

\* the example of the claim
FiveThreeAdd ==
    (pure.arg.input = <<"5", "3", "add">> /\ pure.arg.schema.props = TwoNumbers) =>
        /\ DOMAIN pure.out.args = {"firstNumber", "secondNumber"}
        /\ pure.out.args["firstNumber"] = Num(5)
        /\ pure.out.args["secondNumber"] = Num(3)

\* the fields a token can account for: a numeric parameter that got a numeric
\* substring, a string parameter if there is a word that is not a number;
\* besides these, required parameters (filled with a default)
AccountedFor ==
    LET numericProps == SelectSeq(pure.arg.schema.props, IsNumericProp)
        stringProps == SelectSeq(pure.arg.schema.props, IsStringProp)
        matches == numberMatches(pure.arg.input)
        NotNumeric(w) == ~isNumericWord(w)
    IN  {numericProps[i].name : i \in {j \in 1..Len(numericProps) : j <= Len(matches)}}
        \cup (IF SelectSeq(pure.arg.input, NotNumeric) # <<>> THEN NamesOf(stringProps) ELSE {})

\* C20 (as claimed): under SpecMap, against a schema with several parameters
\* the numeric substrings are the values of the numeric parameters in order,
\* "5 3 add" gives exactly {firstNumber: 5, secondNumber: 3}, and the result
\* has no field that no token accounts for (other than a required one).
C20_UnmatchedTokensAddNothing ==
    MappedMulti =>
        /\ ~pure.out.threw
        /\ NumbersInOrder
        /\ FiveThreeAdd
        /\ DOMAIN pure.out.args \subseteq
                AccountedFor \cup {pure.arg.schema.required[i] : i \in 1..Len(pure.arg.schema.required)}

\* C20 (amended): the same where some numeric substring or word was mapped;
\* where none was, the result is one field holding the whole input: a string
\* parameter as it is, else the first required or else the first declared
\* parameter after conversion to its type (0 for a number that does not parse).
C20_NumbersInOrder ==
    MappedMulti =>
        LET schema == pure.arg.schema
            stringProps == SelectSeq(schema.props, IsStringProp)
            required == {schema.required[i] : i \in 1..Len(schema.required)}
            args == pure.out.args
        IN  /\ ~pure.out.threw
            /\ NumbersInOrder
            /\ FiveThreeAdd
            /\ AccountedFor # {} => DOMAIN args \subseteq AccountedFor \cup required
            /\ AccountedFor = {} =>
                /\ Cardinality(DOMAIN args) = 1
                /\ \A name \in DOMAIN args :
                    IF stringProps # <<>>
                    THEN /\ name \in NamesOf(stringProps)
                         /\ args[name] = Str(text(pure.arg.input))
                    ELSE /\ name = IF schema.required # <<>> THEN schema.required[1]
                                   ELSE schema.props[1].name
                         /\ args[name] =
                                convertValueToSchemaType(pure.arg.input, propertyOf(schema, name))

\* "5 3 add" against {firstNumber: number, secondNumber: number}
C20_Witness ==
    /\ MappedMulti
    /\ pure.arg.input = <<"5", "3", "add">>
    /\ pure.arg.schema.props = TwoNumbers
    /\ pure.out.args = [n \in {"firstNumber", "secondNumber"} |->
                            IF n = "firstNumber" THEN Num(5) ELSE Num(3)]

\* ---- the arguments of a tool call --------------------------------------------
\* executeInternal has computed the arguments of the call for an input that is
\* not a structured object
Wrapped(value) ==
    /\ ~pure.out.threw
    /\ pure.out.args = put(<<>>, pure.arg.schema.props[1].name, value)

\* the input after coercion to the type of the one parameter
Coerced ==
    LET input == pure.arg.input
        prop == pure.arg.schema.props[1]
    IN  IF input.kind = "string" THEN convertValueToSchemaType(input.ws, prop)
        ELSE convertScalarToSchemaType(input.value, prop)

\* C21: under SpecArguments, for a schema with exactly one declared parameter
\* the arguments computed for an input that is a string, a number or a boolean
\* are that one parameter with the input coerced to its type; "laptops"
\* against {category: string(enum: [laptops, phones])} gives
\* {category: "laptops"}.
C21_ScalarWrapped ==
    (/\ pure.fn = "executeInternal" /\ pure.done
     /\ Len(pure.arg.schema.props) = 1
     /\ pure.arg.input.kind \in {"string", "scalar"})
        => /\ Wrapped(Coerced)
           /\ (pure.arg.input = StringInput(<<"laptops">>) /\ pure.arg.schema.props = Category)
                => pure.out.args = ("category" :> Str("laptops"))

RequiredOf(schema) == {schema.required[i] : i \in 1..Len(schema.required)}

\* C22: under SpecArguments, for every schema and every input (structured
\* object, free text, bare scalar or none) the inference followed by the
\* cleaning pass does not throw and gives arguments in which every required
\* field is present; {} against a schema requiring {query: string} gives
\* {query: ""}.
C22_RequiredPresent ==
    (pure.fn = "executeInternal" /\ pure.done)
        => /\ ~pure.out.threw
           /\ RequiredOf(pure.arg.schema) \subseteq DOMAIN pure.out.args
           /\ (pure.arg.input = ObjectInput(<<>>) /\ pure.arg.schema.props = Query)
                => pure.out.args = ("query" :> Str(""))

\* C23: under SpecArguments, for a tool whose schema declares no parameter the
\* arguments passed to callTool for a (non-empty) free-text input are the one
\* implicit parameter input holding the text.
C23_ImplicitParameterCarried ==
    (/\ pure.fn = "executeInternal" /\ pure.done
     /\ pure.arg.schema.props = <<>>
     /\ pure.arg.input.kind = "string" /\ pure.arg.input.ws # <<>>)
        => /\ ~pure.out.threw
           /\ pure.out.args = ("input" :> Str(text(pure.arg.input.ws)))

\* ---- the health of the system ------------------------------------------------
\* /api/health has answered for an MCP server that is unavailable: GET /health
\* failed and the stream was not open
Unavailable ==
    /\ health.pc = "done"
    /\ ~health.serverReachable
    /\ ~health.sseConnected

C25_StatusCode ==
    health.pc = "done" =>
        /\ health.status = "healthy" => health.http = 200
        /\ health.status = "unhealthy" => health.http = 503

\* ---- the chat stream ---------------------------------------------------------
Streams == {k \in 1..Len(chats) : chats[k].stream}

\* the events of a stream are well-formed: 'start' first, 'end' at most once
\* and last
C26_StartFirstEndLast ==
    \A k \in Streams :
        LET log == chats[k].log IN
        /\ log # <<>> /\ log[1] = "start"
        /\ \A i \in 1..Len(log) : log[i] = "end" => i = Len(log)

\* a request that has finished with its connection open has written 'end'
C26_FinishedWithEnd ==
    \A k \in Streams :
        (chats[k].pc = "done" /\ ~chats[k].closed)
            => chats[k].log[Len(chats[k].log)] = "end"

\* nothing is written once 'end' is written or the connection has closed
C26_NothingAfterEndOrClose ==
    \A k \in Streams :
        (chats[k].closed \/ chats[k].log[Len(chats[k].log)] = "end")
            => chats'[k].log = chats[k].log

MessagesOf(session) ==
    [i \in 1..(said[session].n - said[session].cleared) |-> said[session].cleared + i]

\* C27: under SpecHistory, after any processMessage, clearSession and
\* clearAllSessions calls the stored history of each session holds at most 20
\* messages, and they are the most recent messages of that session in their
\* original order.
C27_MostRecentMessages ==
    \A session \in Conversations :
        /\ Len(conversationHistory[session]) <= HistoryLimit
        /\ conversationHistory[session] = keepLast(MessagesOf(session))

\* ---- registration and transmission ---------------------------------------------
\* a reply to request id on the stream of connect call c
Replies(id) ==
    {m \in Messages : m.id = id /\ m.sess = NoSession}

\* the step that issues a request leaves it registered, its POST unanswered
C28_RegisteredWhenIssued ==
    \A id \in 1..Len(req') :
        id > Len(req) => (id \in pendingRequests' /\ req'[id].post = "sent")

\* a reply delivered right after sendRequest, the POST unanswered, completes
\* the request with what the reply carries
C28_ReplyCompletes ==
    Len(req) < MaxReq =>
        \A method \in {"tools/list", "tools/call"}, c \in 1..Len(conn) :
            LET T == sendRequest(State, method, sessionId, 0)
                id == Len(T.req)
            IN  (T.conn[c].open /\ T.conn[c].sessionIdReceived) =>
                    \A m \in Replies(id) :
                        LET U == onmessage(T, c, m) IN
                        /\ T.req[id].post = "sent"
                        /\ U.req[id].outcome = IF m.error THEN "protocol_error" ELSE "success"
                        /\ id \notin U.pendingRequests

\* C28: under SpecTransmit, the pending entry of a request is registered
\* before the request is transmitted, so a reply delivered on the inbound
\* stream before the POST has been answered still completes that request
\* with the reply's payload.
C28_ReplyBeforeAcknowledgement ==
    /\ []C28_ReplyCompletes
    /\ [][C28_RegisteredWhenIssued]_vars

\* a tools/call request completed by its reply, its POST still unanswered
C28_Witness ==
    \E id \in Issued :
        /\ req[id].method = "tools/call"
        /\ req[id].outcome = "success"
        /\ req[id].post = "sent"
        /\ id \notin pendingRequests

\* ---- the words of a free text and the string parameters --------------------------
\* the words of the input that are not numbers, in order
NonNumericWords ==
    LET NotNumeric(w) == ~isNumericWord(w) IN SelectSeq(pure.arg.input, NotNumeric)

StringProps == SelectSeq(pure.arg.schema.props, IsStringProp)

\* the place of the value of parameter name among the non-numeric words, 0 if
\* the value is not one of them
PlaceOf(name) ==
    LET at == {k \in 1..Len(NonNumericWords) : pure.out.args[name] = Str(NonNumericWords[k])}
    IN  IF at = {} THEN 0 ELSE CHOOSE k \in at : \A j \in at : k <= j

Distinct(ws) == \A i, j \in 1..Len(ws) : ws[i] = ws[j] => i = j

\* C29: under SpecMap, in free-text mapping against a multi-parameter schema
\* the non-numeric tokens are assigned to the string parameters in descending
\* order of the priority ranking, whatever the order of declaration: of two
\* parameters that each received a token, the one of higher priority has the
\* earlier token.
C29_AssignedByPriority ==
    (MappedMulti /\ Distinct(NonNumericWords)) =>
        \A i, j \in 1..Len(StringProps) :
            LET p == StringProps[i]
                q == StringProps[j]
            IN  (/\ ~hasEnum(p) /\ ~hasEnum(q)
                 /\ p.name \in DOMAIN pure.out.args /\ q.name \in DOMAIN pure.out.args
                 /\ PlaceOf(p.name) > 0 /\ PlaceOf(q.name) > 0
                 /\ getPropertyPriority(p) > getPropertyPriority(q))
                    => PlaceOf(p.name) < PlaceOf(q.name)

\* word k of the non-numeric words occurs in the value of a string parameter
Kept(k) ==
    \E i \in 1..Len(StringProps), a \in 1..k, b \in k..Len(NonNumericWords) :
        /\ StringProps[i].name \in DOMAIN pure.out.args
        /\ pure.out.args[StringProps[i].name] = Str(text(SubSeq(NonNumericWords, a, b)))

\* C30: under SpecMap, in free-text mapping against a multi-parameter schema
\* with at least one string parameter no non-numeric token of the input is
\* lost: every one of them occurs in the value of some string parameter of
\* the result.
C30_NoTokenLost ==
    (MappedMulti /\ StringProps # <<>>) =>
        \A k \in 1..Len(NonNumericWords) : Kept(k)

\* ---- the cleaning pass ----------------------------------------------------------
\* the candidate argument set handed to validateAndCleanArgs
Candidate ==
    IF pure.arg.input.kind = "object" THEN pure.arg.input.fields ELSE pure.out.mapped

Cleaned == pure.fn = "executeInternal" /\ pure.done /\ ~pure.out.threw

\* the fields of the candidate set that the schema declares with one of types
FieldsOfType(types) ==
    {key \in DOMAIN Candidate :
        /\ declared(pure.arg.schema, key)
        /\ propertyOf(pure.arg.schema, key).type \in types}

\* C31: under SpecArguments, in the cleaning pass a boolean-typed field becomes
\* true only when the supplied value is boolean true or one of the strings
\* "true" or "1"; any other supplied string, such as "false" or "0", becomes
\* false.
C31_BooleanFromTrueOrOne ==
    Cleaned =>
        \A key \in FieldsOfType({"boolean"}) :
            Candidate[key] \notin {Null, Undefined} =>
                /\ key \in DOMAIN pure.out.args
                /\ pure.out.args[key] =
                        Bool(Candidate[key] \in {Bool(TRUE), Str("true"), Str("1")})

\* C32: under SpecArguments, in the cleaning pass a number or integer field
\* that is present in the candidate argument set with a value that cannot be
\* parsed as a number is 0 in the cleaned argument set, whether or not the
\* field is required.
C32_UnparsableNumberIsZero ==
    Cleaned =>
        \A key \in FieldsOfType({"number", "integer"}) :
            (/\ Candidate[key] \notin {Null, Undefined}
             /\ parseFloatOf(toStringOf(Candidate[key])) = -1)
                => (key \in DOMAIN pure.out.args /\ pure.out.args[key] = Num(0))

\* C33: under SpecArguments, for every schema and every candidate argument
\* set the keys of the cleaned argument set passed to tools/call are among the
\* parameter names the schema declares: fields not declared are dropped and
\* required names the schema does not declare are not added.
C33_OnlyDeclaredKeys ==
    Cleaned =>
        \A key \in DOMAIN pure.out.args : declared(pure.arg.schema, key)

\* ---- overlapping connect() calls ------------------------------------------------
\* connect call c has completed successfully
Succeeded(c) == conn[c].pc = "done"

\* C34: under SpecReconnect, if a connect() call has completed successfully
\* and disconnect() is not called, isClientConnected() remains true: the
\* later failure of a different connect() attempt does not reset the
\* connected and initialized flags.
C34_ConnectedUntilDisconnect ==
    [][((\E c \in 1..Len(conn) : Succeeded(c)) /\ isConnected /\ initialized /\ ~Disconnect)
            => (isConnected' /\ initialized')]_vars

\* C35: under SpecReconnect, after a connect() call has succeeded and until
\* disconnect() is called the client never closes the inbound stream of that
\* connection: the session timer of another attempt closes only the stream
\* that attempt opened.
C35_StreamOpenUntilDisconnect ==
    [][\A c \in 1..Len(conn) :
            (Succeeded(c) /\ conn[c].open /\ ~Disconnect) => conn'[c].open]_vars

\* C36: under SpecReconnect, in every reachable state, also with overlapping
\* connect() and disconnect() calls, initialized = true implies that the
\* client holds a session identifier.
C36_InitializedHoldsSession ==
    initialized => sessionId # NoSession

\* two connect() calls overlap, disconnect() has closed the stream of the
\* second (no session timer has fired), and the first call, whose stream
\* stayed open, has initialized the client
C36_Witness ==
    /\ initialized
    /\ Len(conn) = 2
    /\ conn[1].open /\ ~conn[2].open
    /\ conn[1].timer = "armed" /\ conn[2].timer = "armed"

\* ---- concurrent calls of processMessage -----------------------------------------
\* message i of a session is in its stored history
InHistory(session, i) ==
    \E k \in 1..Len(conversationHistory[session]) : conversationHistory[session][k] = i

\* C37: under SpecHistory, for any interleaving of processMessage calls on one
\* session (the session never cleared), every call that has returned has its
\* human message and its AI reply in the history of the session, up to the
\* cap of 20 messages: no exchange is overwritten by a concurrent one.
C37_NoExchangeOverwritten ==
    \A session \in Conversations :
        said[session].cleared = 0 =>
            \A i \in 1..said[session].n :
                i > said[session].n - HistoryLimit => InHistory(session, i)

\* ---- the two tool lists -----------------------------------------------------------
\* C38: under SpecAgent, after refreshTools() has completed, the retrieval of
\* the catalog succeeded or failed, the agent's tool list and the tools
\* manager's tool list contain the same tools.
C38_RefreshKeepsListsEqual ==
    (agent.op = "refresh" /\ agent.pc = "ready") => agent.tools = agent.mgrTools

\* ---- a chat request that fails ----------------------------------------------------
\* the number of events of a type written on the stream of request k
Written(k, type) ==
    Cardinality({i \in 1..Len(chats[k].log) : chats[k].log[i] = type})

\* C39: under SpecChat, a streaming chat request whose processing fails (its
\* connection open) writes exactly one 'error' event to the stream, followed
\* by exactly one 'end' event.
C39_OneErrorThenEnd ==
    \A k \in 1..Len(chats) :
        (/\ chats[k].stream /\ chats[k].pc = "done"
         /\ chats[k].outcome = "failed" /\ ~chats[k].closed)
            => LET log == chats[k].log IN
               /\ Written(k, "error") = 1
               /\ Written(k, "end") = 1
               /\ Len(log) >= 2
               /\ log[Len(log) - 1] = "error" /\ log[Len(log)] = "end"

\* ---- a write that fails -------------------------------------------------------------
\* C40: under SpecSend, SSEStream.sendMessage always terminates: when
\* serializing or writing an event fails, the failure is reported at most
\* once and the call returns, without further re-entry through sendError,
\* even if every write to the response fails.
C40_ReportedAtMostOnce ==
    pure.fn = "sendMessage" => (pure.out.reports <= 1 /\ ~pure.out.threw)

====
